------------------------ MODULE StrictVsRecoveryProofs ------------------------
(***************************************************************************)
(* The two ways of parsing one input agree up to its first defective       *)
(* record, for inputs of any length, any alphabet of lines and any limits. *)
(***************************************************************************)
EXTENDS StrictVsRecovery, BasicLemmas

SP == INSTANCE VboParserProofs WITH
  recover <- s_recover, section <- s_section, line <- s_line, created <- s_created,
  sections <- s_sections, channels <- s_channels, units <- s_units,
  data_seen <- s_data_seen, rows <- s_rows, row_values <- s_row_values,
  values <- s_values, issues <- s_issues, result <- s_result,
  consumed <- s_consumed, delivered <- s_delivered

RP == INSTANCE VboParserProofs WITH
  recover <- r_recover, section <- r_section, line <- r_line, created <- r_created,
  sections <- r_sections, channels <- r_channels, units <- r_units,
  data_seen <- r_data_seen, rows <- r_rows, row_values <- r_row_values,
  values <- r_values, issues <- r_issues, result <- r_result,
  consumed <- r_consumed, delivered <- r_delivered

\* The two parses are in the same state, and neither has a diagnostic.
Alike ==
  /\ r_section = s_section /\ r_line = s_line
  /\ r_created = s_created /\ r_sections = s_sections
  /\ r_channels = s_channels /\ r_units = s_units /\ r_data_seen = s_data_seen
  /\ r_rows = s_rows /\ r_row_values = s_row_values /\ r_values = s_values
  /\ r_result = s_result /\ r_consumed = s_consumed /\ r_delivered = s_delivered
  /\ s_issues = <<>> /\ r_issues = <<>>

(* The inductive invariant: until strict parsing stops at a record the     *)
(* parses are in the same state, and from then on the recovering one has   *)
(* reported that record.                                                   *)
TwinInv ==
  /\ ~s_recover /\ r_recover
  /\ s_result \notin RecordErrors => Alike
  /\ FirstIssueIsTheStrictError

-----------------------------------------------------------------------------
(***************************************************************************)
(* Each side is a parse.                                                   *)
(***************************************************************************)

(* What a parser assumes of its constants holds on both sides.             *)
LEMMA StrictAssumptionHolds ==
  /\ Lines \subseteq SP!Line
  /\ Number \cap Word = {}
  /\ FileCreated \subseteq {t \in SP!Text : Len(t) > 1 /\ t[1] \in Word}
  /\ NoUnit \notin SP!Field
  /\ UnknownName \cap SP!KnownName = {}
  /\ MaxRows \in Nat /\ MaxIssues \in Nat /\ MaxLines \in Nat
<1>1. SP!Text = S!Text /\ SP!Field = S!Field /\ SP!KnownName = S!KnownName /\ SP!Line = S!Line
  BY DEF SP!Text, S!Text, SP!Field, S!Field, SP!KnownName, S!KnownName, SP!Section, S!Section,
         SP!Line, S!Line, SP!MarkerName, S!MarkerName
<1> QED
  BY <1>1, EntryPointsAssumption

(* The same on the recovering side. *)
LEMMA RecoveryAssumptionHolds ==
  /\ Lines \subseteq RP!Line
  /\ Number \cap Word = {}
  /\ FileCreated \subseteq {t \in RP!Text : Len(t) > 1 /\ t[1] \in Word}
  /\ NoUnit \notin RP!Field
  /\ UnknownName \cap RP!KnownName = {}
  /\ MaxRows \in Nat /\ MaxIssues \in Nat /\ MaxLines \in Nat
<1>1. RP!Text = S!Text /\ RP!Field = S!Field /\ RP!KnownName = S!KnownName /\ RP!Line = S!Line
  BY DEF RP!Text, S!Text, RP!Field, S!Field, RP!KnownName, S!KnownName, RP!Section, S!Section,
         RP!Line, S!Line, RP!MarkerName, S!MarkerName
<1> QED
  BY <1>1, EntryPointsAssumption

(* The strict parser of StrictVsRecovery and that of the proofs have the same operators. *)
LEMMA StrictWords ==
  /\ SP!Running = S!Running /\ SP!Ok = S!Ok /\ SP!LineTooLong = S!LineTooLong
  /\ \A tag : SP!Fatal(tag) = S!Fatal(tag)
  /\ \A name : SP!FromMarker(name) = S!FromMarker(name)
  /\ \A chans, toks : SP!ApplyUnits(chans, toks) = S!ApplyUnits(chans, toks)
  /\ \A text : SP!ParsedRow(text) = S!ParsedRow(text)
  /\ SP!TableFull = S!TableFull
<1>1. SP!Running = S!Running /\ SP!Ok = S!Ok /\ SP!LineTooLong = S!LineTooLong
  BY DEF SP!Running, S!Running, SP!Ok, S!Ok, SP!LineTooLong, S!LineTooLong
<1>2. \A tag : SP!Fatal(tag) = S!Fatal(tag)
  BY DEF SP!Fatal, S!Fatal
<1>3. \A name : SP!FromMarker(name) = S!FromMarker(name)
  BY DEF SP!FromMarker, S!FromMarker, SP!KnownName, S!KnownName, SP!Section, S!Section
<1>4. \A chans, toks : SP!ApplyUnits(chans, toks) = S!ApplyUnits(chans, toks)
  BY DEF SP!ApplyUnits, S!ApplyUnits
<1>5. \A text : SP!ParsedRow(text) = S!ParsedRow(text)
  BY DEF SP!ParsedRow, S!ParsedRow, SP!ParseRowInto, S!ParseRowInto, SP!FirstBad, S!FirstBad,
         SP!WrongColumnCount, S!WrongColumnCount, SP!InvalidNumber, S!InvalidNumber
<1>6. SP!TableFull = S!TableFull
  BY DEF SP!TableFull, S!TableFull
<1> QED
  BY <1>1, <1>2, <1>3, <1>4, <1>5, <1>6

(* A step of the strict side is a step of a parse.                                    *)
LEMMA StrictParses ==
  ASSUME NEW l, S!Step(l)
  PROVE  SP!Step(l)
<1> USE StrictWords DEF S!ReadLine, SP!ReadLine, S!Return, SP!Return, S!PushIssue, SP!PushIssue,
    S!PushText, SP!PushText, S!header, SP!header, S!schema, SP!schema, S!table, SP!table
<1>1. CASE S!OversizedRecord(l)
  BY <1>1 DEF S!OversizedRecord, SP!OversizedRecord, SP!Step
<1>2. CASE S!OversizedLine(l)
  BY <1>2 DEF S!OversizedLine, SP!OversizedLine, SP!Step
<1>3. CASE S!BlankLine(l)
  BY <1>3 DEF S!BlankLine, SP!BlankLine, SP!Step
<1>4. CASE S!NotUtf8Line(l)
  BY <1>4 DEF S!NotUtf8Line, SP!NotUtf8Line, SP!Step
<1>5. CASE S!DataMarkerWithoutSchema(l)
  BY <1>5 DEF S!DataMarkerWithoutSchema, SP!DataMarkerWithoutSchema, SP!Step
<1>6. CASE S!DataMarker(l)
  BY <1>6 DEF S!DataMarker, SP!DataMarker, SP!Step
<1>7. CASE S!OtherMarker(l)
  BY <1>7 DEF S!OtherMarker, SP!OtherMarker, SP!Step
<1>8. CASE S!CreatedText(l)
  BY <1>8 DEF S!CreatedText, SP!CreatedText, SP!Step
<1>9. CASE S!PreambleText(l)
  BY <1>9 DEF S!PreambleText, SP!PreambleText, SP!Step
<1>10. CASE S!ColumnNamesText(l)
  BY <1>10 DEF S!ColumnNamesText, SP!ColumnNamesText, SP!Step
<1>11. CASE S!ChannelUnitsText(l)
  BY <1>11 DEF S!ChannelUnitsText, SP!ChannelUnitsText, SP!Step
<1>12. CASE S!HeaderText(l)
  BY <1>12 DEF S!HeaderText, SP!HeaderText, SP!Step
<1>13. CASE S!RecordOverLimit(l)
  BY <1>13 DEF S!RecordOverLimit, SP!RecordOverLimit, SP!Step
<1>14. CASE S!AcceptRecord(l)
  BY <1>14 DEF S!AcceptRecord, SP!AcceptRecord, SP!Step
<1>15. CASE S!OmitRecord(l)
  BY <1>15 DEF S!OmitRecord, SP!OmitRecord, SP!Step
<1>16. CASE S!RejectRecord(l)
  BY <1>16 DEF S!RejectRecord, SP!RejectRecord, SP!Step
<1> QED
  BY <1>1, <1>2, <1>3, <1>4, <1>5, <1>6, <1>7, <1>8,
     <1>9, <1>10, <1>11, <1>12, <1>13, <1>14, <1>15, <1>16 DEF S!Step

(* So have the recovering ones. *)
LEMMA RecoveryWords ==
  /\ RP!Running = R!Running /\ RP!Ok = R!Ok /\ RP!LineTooLong = R!LineTooLong
  /\ \A tag : RP!Fatal(tag) = R!Fatal(tag)
  /\ \A name : RP!FromMarker(name) = R!FromMarker(name)
  /\ \A chans, toks : RP!ApplyUnits(chans, toks) = R!ApplyUnits(chans, toks)
  /\ \A text : RP!ParsedRow(text) = R!ParsedRow(text)
  /\ RP!TableFull = R!TableFull
<1>1. RP!Running = R!Running /\ RP!Ok = R!Ok /\ RP!LineTooLong = R!LineTooLong
  BY DEF RP!Running, R!Running, RP!Ok, R!Ok, RP!LineTooLong, R!LineTooLong
<1>2. \A tag : RP!Fatal(tag) = R!Fatal(tag)
  BY DEF RP!Fatal, R!Fatal
<1>3. \A name : RP!FromMarker(name) = R!FromMarker(name)
  BY DEF RP!FromMarker, R!FromMarker, RP!KnownName, R!KnownName, RP!Section, R!Section
<1>4. \A chans, toks : RP!ApplyUnits(chans, toks) = R!ApplyUnits(chans, toks)
  BY DEF RP!ApplyUnits, R!ApplyUnits
<1>5. \A text : RP!ParsedRow(text) = R!ParsedRow(text)
  BY DEF RP!ParsedRow, R!ParsedRow, RP!ParseRowInto, R!ParseRowInto, RP!FirstBad, R!FirstBad,
         RP!WrongColumnCount, R!WrongColumnCount, RP!InvalidNumber, R!InvalidNumber
<1>6. RP!TableFull = R!TableFull
  BY DEF RP!TableFull, R!TableFull
<1> QED
  BY <1>1, <1>2, <1>3, <1>4, <1>5, <1>6

(* A step of the recovering side is a step of a parse.                                *)
LEMMA RecoveryParses ==
  ASSUME NEW l, R!Step(l)
  PROVE  RP!Step(l)
<1> USE RecoveryWords DEF R!ReadLine, RP!ReadLine, R!Return, RP!Return, R!PushIssue, RP!PushIssue,
    R!PushText, RP!PushText, R!header, RP!header, R!schema, RP!schema, R!table, RP!table
<1>1. CASE R!OversizedRecord(l)
  BY <1>1 DEF R!OversizedRecord, RP!OversizedRecord, RP!Step
<1>2. CASE R!OversizedLine(l)
  BY <1>2 DEF R!OversizedLine, RP!OversizedLine, RP!Step
<1>3. CASE R!BlankLine(l)
  BY <1>3 DEF R!BlankLine, RP!BlankLine, RP!Step
<1>4. CASE R!NotUtf8Line(l)
  BY <1>4 DEF R!NotUtf8Line, RP!NotUtf8Line, RP!Step
<1>5. CASE R!DataMarkerWithoutSchema(l)
  BY <1>5 DEF R!DataMarkerWithoutSchema, RP!DataMarkerWithoutSchema, RP!Step
<1>6. CASE R!DataMarker(l)
  BY <1>6 DEF R!DataMarker, RP!DataMarker, RP!Step
<1>7. CASE R!OtherMarker(l)
  BY <1>7 DEF R!OtherMarker, RP!OtherMarker, RP!Step
<1>8. CASE R!CreatedText(l)
  BY <1>8 DEF R!CreatedText, RP!CreatedText, RP!Step
<1>9. CASE R!PreambleText(l)
  BY <1>9 DEF R!PreambleText, RP!PreambleText, RP!Step
<1>10. CASE R!ColumnNamesText(l)
  BY <1>10 DEF R!ColumnNamesText, RP!ColumnNamesText, RP!Step
<1>11. CASE R!ChannelUnitsText(l)
  BY <1>11 DEF R!ChannelUnitsText, RP!ChannelUnitsText, RP!Step
<1>12. CASE R!HeaderText(l)
  BY <1>12 DEF R!HeaderText, RP!HeaderText, RP!Step
<1>13. CASE R!RecordOverLimit(l)
  BY <1>13 DEF R!RecordOverLimit, RP!RecordOverLimit, RP!Step
<1>14. CASE R!AcceptRecord(l)
  BY <1>14 DEF R!AcceptRecord, RP!AcceptRecord, RP!Step
<1>15. CASE R!OmitRecord(l)
  BY <1>15 DEF R!OmitRecord, RP!OmitRecord, RP!Step
<1>16. CASE R!RejectRecord(l)
  BY <1>16 DEF R!RejectRecord, RP!RejectRecord, RP!Step
<1> QED
  BY <1>1, <1>2, <1>3, <1>4, <1>5, <1>6, <1>7, <1>8,
     <1>9, <1>10, <1>11, <1>12, <1>13, <1>14, <1>15, <1>16 DEF R!Step

(* Read side by side, each side makes the steps of a parse of its own.     *)
LEMMA StrictSideParses == Spec => SP!Spec
<1>1. Init => SP!Init
  BY StrictWords DEF Init, S!Init, SP!Init, S!Section, SP!Section
<1>2. [Next]_vars => [SP!Next]_SP!vars
  <2> SUFFICES ASSUME [Next]_vars PROVE [SP!Next]_SP!vars
    OBVIOUS
  <2>1. CASE UNCHANGED strict
    BY <2>1 DEF strict, SP!vars, SP!header, SP!schema, SP!table
  <2>2. ASSUME NEW l \in Lines, S!Step(l) PROVE SP!Next
    BY <2>2, StrictParses DEF SP!Next, SP!Progress
  <2>3. CASE S!EndWithoutData \/ S!EndOfInput
    <3>1. SP!EndWithoutData \/ SP!EndOfInput
      BY <2>3, StrictWords DEF S!EndWithoutData, SP!EndWithoutData, S!EndOfInput, SP!EndOfInput,
         S!Return, SP!Return, S!header, SP!header, S!schema, SP!schema, S!table, SP!table
    <3> QED
      BY <3>1 DEF SP!Next, SP!Progress
  <2> QED
    BY <2>1, <2>2, <2>3 DEF Next, ReadLine, StrictStep, End, vars
<1> QED
  BY <1>1, <1>2, PTL DEF Spec, SP!Spec

(* Seen alone, the recovering side is a parser: the theorems of VboParser hold of it. *)
LEMMA RecoveringSideParses == Spec => RP!Spec
<1>1. Init => RP!Init
  BY RecoveryWords DEF Init, R!Init, RP!Init, R!Section, RP!Section
<1>2. [Next]_vars => [RP!Next]_RP!vars
  <2> SUFFICES ASSUME [Next]_vars PROVE [RP!Next]_RP!vars
    OBVIOUS
  <2>1. CASE UNCHANGED recovering
    BY <2>1 DEF recovering, RP!vars, RP!header, RP!schema, RP!table
  <2>2. ASSUME NEW l \in Lines, R!Step(l) PROVE RP!Next
    BY <2>2, RecoveryParses DEF RP!Next, RP!Progress
  <2>3. CASE R!EndWithoutData \/ R!EndOfInput
    <3>1. RP!EndWithoutData \/ RP!EndOfInput
      BY <2>3, RecoveryWords DEF R!EndWithoutData, RP!EndWithoutData, R!EndOfInput, RP!EndOfInput,
         R!Return, RP!Return, R!header, RP!header, R!schema, RP!schema, R!table, RP!table
    <3> QED
      BY <3>1 DEF RP!Next, RP!Progress
  <2> QED
    BY <2>1, <2>2, <2>3 DEF Next, ReadLine, RecoveringStep, End, vars
<1> QED
  BY <1>1, <1>2, PTL DEF Spec, RP!Spec

(* So both keep their types.                                               *)
LEMMA BothTyped == Spec => [](SP!TypeOK /\ RP!TypeOK)
<1>1. SP!Spec => []SP!TypeOK
  BY StrictAssumptionHolds, SP!TypeCorrect
<1>2. RP!Spec => []RP!TypeOK
  BY RecoveryAssumptionHolds, RP!TypeCorrect
<1> QED
  BY <1>1, <1>2, StrictSideParses, RecoveringSideParses, PTL

-----------------------------------------------------------------------------
(***************************************************************************)
(* One line, read by both.                                                 *)
(***************************************************************************)

(* Why a record is not a row is a record error.                            *)
LEMMA RejectionsAreRecordErrors ==
  ASSUME SP!TypeOK, NEW l \in Lines, l.kind = "text", ~S!ParsedRow(l.text).ok
  PROVE  S!ParsedRow(l.text).error \in RecordErrors
<1>1. l.text \in Seq(SP!Field)
  BY StrictAssumptionHolds, SP!LineFacts
<1>2. ~SP!ParsedRow(l.text).ok
  BY StrictWords
<1>3. SP!ParsedRow(l.text).error \in SP!RowError
  BY <1>1, <1>2, StrictAssumptionHolds, SP!ParsedRowType
<1>4. SP!ParsedRow(l.text) = S!ParsedRow(l.text)
  BY StrictWords
<1>5. SP!RowError \subseteq RecordErrors
  BY DEF SP!RowError, RecordErrors, S!IssueKind, S!RowError
<1> QED
  BY <1>3, <1>4, <1>5

(* What else a parse returns is not one.                                   *)
LEMMA OtherResults ==
  /\ S!Running \notin RecordErrors /\ S!Ok \notin RecordErrors
  /\ \A tag \in S!FatalTag : S!Fatal(tag) \notin RecordErrors
  /\ S!LineTooLong \in RecordErrors
BY DEF RecordErrors, S!IssueKind, S!RowError, S!Running, S!Ok, S!Fatal, S!FatalTag, S!LineTooLong

(* In the same state both sides read a line the same way.                  *)
LEMMA TwinWords ==
  ASSUME Alike
  PROVE  /\ R!Running = S!Running /\ R!Ok = S!Ok /\ R!LineTooLong = S!LineTooLong
         /\ \A tag : R!Fatal(tag) = S!Fatal(tag)
         /\ \A name : R!FromMarker(name) = S!FromMarker(name)
         /\ \A chans, toks : R!ApplyUnits(chans, toks) = S!ApplyUnits(chans, toks)
         /\ \A text : R!ParsedRow(text) = S!ParsedRow(text)
         /\ R!TableFull <=> S!TableFull
<1>1. R!Running = S!Running /\ R!Ok = S!Ok /\ R!LineTooLong = S!LineTooLong
  BY DEF R!Running, S!Running, R!Ok, S!Ok, R!LineTooLong, S!LineTooLong
<1>2. \A tag : R!Fatal(tag) = S!Fatal(tag)
  BY DEF R!Fatal, S!Fatal
<1>3. \A name : R!FromMarker(name) = S!FromMarker(name)
  BY DEF R!FromMarker, S!FromMarker, R!KnownName, S!KnownName, R!Section, S!Section
<1>4. \A chans, toks : R!ApplyUnits(chans, toks) = S!ApplyUnits(chans, toks)
  BY DEF R!ApplyUnits, S!ApplyUnits
<1>5. \A text : R!ParsedRow(text) = S!ParsedRow(text)
  BY DEF Alike, R!ParsedRow, S!ParsedRow, R!ParseRowInto, S!ParseRowInto, R!FirstBad, S!FirstBad,
         R!WrongColumnCount, S!WrongColumnCount, R!InvalidNumber, S!InvalidNumber
<1>6. R!TableFull <=> S!TableFull
  BY DEF Alike, R!TableFull, S!TableFull
<1> QED
  BY <1>1, <1>2, <1>3, <1>4, <1>5, <1>6

(* The recovering side takes the way the strict side takes, except past a  *)
(* defective record.                                                       *)
LEMMA SameWay ==
  ASSUME Alike, ~s_recover, r_recover, NEW l, S!Step(l), R!Step(l)
  PROVE  \/ S!BlankLine(l) /\ R!BlankLine(l)
         \/ S!NotUtf8Line(l) /\ R!NotUtf8Line(l)
         \/ S!DataMarkerWithoutSchema(l) /\ R!DataMarkerWithoutSchema(l)
         \/ S!DataMarker(l) /\ R!DataMarker(l)
         \/ S!OtherMarker(l) /\ R!OtherMarker(l)
         \/ S!CreatedText(l) /\ R!CreatedText(l)
         \/ S!PreambleText(l) /\ R!PreambleText(l)
         \/ S!ColumnNamesText(l) /\ R!ColumnNamesText(l)
         \/ S!ChannelUnitsText(l) /\ R!ChannelUnitsText(l)
         \/ S!HeaderText(l) /\ R!HeaderText(l)
         \/ S!RecordOverLimit(l) /\ R!RecordOverLimit(l)
         \/ S!AcceptRecord(l) /\ R!AcceptRecord(l)
         \/ s_section # "data" /\ S!OversizedLine(l) /\ R!OversizedLine(l)
         \/ s_section = "data" /\ S!OversizedLine(l) /\ R!OversizedRecord(l)
         \/ S!RejectRecord(l) /\ R!OmitRecord(l)
<1> USE TwinWords DEF Alike
<1>1. CASE S!BlankLine(l)
  BY <1>1 DEF S!BlankLine, R!Step, R!OversizedRecord, R!OversizedLine, R!BlankLine,
     R!NotUtf8Line, R!DataMarkerWithoutSchema, R!DataMarker, R!OtherMarker, R!CreatedText,
     R!PreambleText, R!ColumnNamesText, R!ChannelUnitsText, R!HeaderText, R!RecordOverLimit,
     R!AcceptRecord, R!OmitRecord, R!RejectRecord
<1>2. CASE S!NotUtf8Line(l)
  BY <1>2 DEF S!NotUtf8Line, R!Step, R!OversizedRecord, R!OversizedLine, R!BlankLine,
     R!NotUtf8Line, R!DataMarkerWithoutSchema, R!DataMarker, R!OtherMarker, R!CreatedText,
     R!PreambleText, R!ColumnNamesText, R!ChannelUnitsText, R!HeaderText, R!RecordOverLimit,
     R!AcceptRecord, R!OmitRecord, R!RejectRecord
<1>3. CASE S!DataMarkerWithoutSchema(l)
  BY <1>3 DEF S!DataMarkerWithoutSchema, R!Step, R!OversizedRecord, R!OversizedLine,
     R!BlankLine, R!NotUtf8Line, R!DataMarkerWithoutSchema, R!DataMarker, R!OtherMarker,
     R!CreatedText, R!PreambleText, R!ColumnNamesText, R!ChannelUnitsText, R!HeaderText,
     R!RecordOverLimit, R!AcceptRecord, R!OmitRecord, R!RejectRecord
<1>4. CASE S!DataMarker(l)
  BY <1>4 DEF S!DataMarker, R!Step, R!OversizedRecord, R!OversizedLine, R!BlankLine,
     R!NotUtf8Line, R!DataMarkerWithoutSchema, R!DataMarker, R!OtherMarker, R!CreatedText,
     R!PreambleText, R!ColumnNamesText, R!ChannelUnitsText, R!HeaderText, R!RecordOverLimit,
     R!AcceptRecord, R!OmitRecord, R!RejectRecord
<1>5. CASE S!OtherMarker(l)
  BY <1>5 DEF S!OtherMarker, R!Step, R!OversizedRecord, R!OversizedLine, R!BlankLine,
     R!NotUtf8Line, R!DataMarkerWithoutSchema, R!DataMarker, R!OtherMarker, R!CreatedText,
     R!PreambleText, R!ColumnNamesText, R!ChannelUnitsText, R!HeaderText, R!RecordOverLimit,
     R!AcceptRecord, R!OmitRecord, R!RejectRecord
<1>6. CASE S!CreatedText(l)
  BY <1>6 DEF S!CreatedText, R!Step, R!OversizedRecord, R!OversizedLine, R!BlankLine,
     R!NotUtf8Line, R!DataMarkerWithoutSchema, R!DataMarker, R!OtherMarker, R!CreatedText,
     R!PreambleText, R!ColumnNamesText, R!ChannelUnitsText, R!HeaderText, R!RecordOverLimit,
     R!AcceptRecord, R!OmitRecord, R!RejectRecord
<1>7. CASE S!PreambleText(l)
  BY <1>7 DEF S!PreambleText, R!Step, R!OversizedRecord, R!OversizedLine, R!BlankLine,
     R!NotUtf8Line, R!DataMarkerWithoutSchema, R!DataMarker, R!OtherMarker, R!CreatedText,
     R!PreambleText, R!ColumnNamesText, R!ChannelUnitsText, R!HeaderText, R!RecordOverLimit,
     R!AcceptRecord, R!OmitRecord, R!RejectRecord
<1>8. CASE S!ColumnNamesText(l)
  BY <1>8 DEF S!ColumnNamesText, R!Step, R!OversizedRecord, R!OversizedLine, R!BlankLine,
     R!NotUtf8Line, R!DataMarkerWithoutSchema, R!DataMarker, R!OtherMarker, R!CreatedText,
     R!PreambleText, R!ColumnNamesText, R!ChannelUnitsText, R!HeaderText, R!RecordOverLimit,
     R!AcceptRecord, R!OmitRecord, R!RejectRecord
<1>9. CASE S!ChannelUnitsText(l)
  BY <1>9 DEF S!ChannelUnitsText, R!Step, R!OversizedRecord, R!OversizedLine, R!BlankLine,
     R!NotUtf8Line, R!DataMarkerWithoutSchema, R!DataMarker, R!OtherMarker, R!CreatedText,
     R!PreambleText, R!ColumnNamesText, R!ChannelUnitsText, R!HeaderText, R!RecordOverLimit,
     R!AcceptRecord, R!OmitRecord, R!RejectRecord
<1>10. CASE S!HeaderText(l)
  BY <1>10 DEF S!HeaderText, R!Step, R!OversizedRecord, R!OversizedLine, R!BlankLine,
     R!NotUtf8Line, R!DataMarkerWithoutSchema, R!DataMarker, R!OtherMarker, R!CreatedText,
     R!PreambleText, R!ColumnNamesText, R!ChannelUnitsText, R!HeaderText, R!RecordOverLimit,
     R!AcceptRecord, R!OmitRecord, R!RejectRecord
<1>11. CASE S!RecordOverLimit(l)
  BY <1>11 DEF S!RecordOverLimit, R!Step, R!OversizedRecord, R!OversizedLine, R!BlankLine,
     R!NotUtf8Line, R!DataMarkerWithoutSchema, R!DataMarker, R!OtherMarker, R!CreatedText,
     R!PreambleText, R!ColumnNamesText, R!ChannelUnitsText, R!HeaderText, R!RecordOverLimit,
     R!AcceptRecord, R!OmitRecord, R!RejectRecord
<1>12. CASE S!AcceptRecord(l)
  BY <1>12 DEF S!AcceptRecord, R!Step, R!OversizedRecord, R!OversizedLine, R!BlankLine,
     R!NotUtf8Line, R!DataMarkerWithoutSchema, R!DataMarker, R!OtherMarker, R!CreatedText,
     R!PreambleText, R!ColumnNamesText, R!ChannelUnitsText, R!HeaderText, R!RecordOverLimit,
     R!AcceptRecord, R!OmitRecord, R!RejectRecord
<1>13. CASE S!OversizedLine(l)
  BY <1>13 DEF S!OversizedLine, R!Step, R!OversizedRecord, R!OversizedLine, R!BlankLine,
     R!NotUtf8Line, R!DataMarkerWithoutSchema, R!DataMarker, R!OtherMarker, R!CreatedText,
     R!PreambleText, R!ColumnNamesText, R!ChannelUnitsText, R!HeaderText, R!RecordOverLimit,
     R!AcceptRecord, R!OmitRecord, R!RejectRecord
<1>14. CASE S!RejectRecord(l)
  BY <1>14 DEF S!RejectRecord, R!Step, R!OversizedRecord, R!OversizedLine, R!BlankLine,
     R!NotUtf8Line, R!DataMarkerWithoutSchema, R!DataMarker, R!OtherMarker, R!CreatedText,
     R!PreambleText, R!ColumnNamesText, R!ChannelUnitsText, R!HeaderText, R!RecordOverLimit,
     R!AcceptRecord, R!OmitRecord, R!RejectRecord
<1>15. ~S!OversizedRecord(l) /\ ~S!OmitRecord(l)
  BY DEF S!OversizedRecord, S!OmitRecord
<1> QED
  BY <1>1, <1>2, <1>3, <1>4, <1>5, <1>6, <1>7, <1>8, <1>9, <1>10, <1>11, <1>12, <1>13, <1>14,
     <1>15 DEF S!Step

(* On the same way they stay in the same state.                            *)
LEMMA SameWaySameState ==
  ASSUME Alike, s_result = S!Running, NEW l,
         \/ S!BlankLine(l) /\ R!BlankLine(l)
         \/ S!NotUtf8Line(l) /\ R!NotUtf8Line(l)
         \/ S!DataMarkerWithoutSchema(l) /\ R!DataMarkerWithoutSchema(l)
         \/ S!DataMarker(l) /\ R!DataMarker(l)
         \/ S!OtherMarker(l) /\ R!OtherMarker(l)
         \/ S!CreatedText(l) /\ R!CreatedText(l)
         \/ S!PreambleText(l) /\ R!PreambleText(l)
         \/ S!ColumnNamesText(l) /\ R!ColumnNamesText(l)
         \/ S!ChannelUnitsText(l) /\ R!ChannelUnitsText(l)
         \/ S!HeaderText(l) /\ R!HeaderText(l)
         \/ S!RecordOverLimit(l) /\ R!RecordOverLimit(l)
         \/ S!AcceptRecord(l) /\ R!AcceptRecord(l)
  PROVE  Alike' /\ s_result' \notin RecordErrors
<1> USE TwinWords, OtherResults DEF Alike, S!ReadLine, R!ReadLine, S!Return, R!Return,
    S!PushText, R!PushText, S!header, R!header, S!schema, R!schema, S!table, R!table, S!FatalTag
<1>1. CASE S!BlankLine(l) /\ R!BlankLine(l)
  BY <1>1 DEF S!BlankLine, R!BlankLine
<1>2. CASE S!NotUtf8Line(l) /\ R!NotUtf8Line(l)
  BY <1>2 DEF S!NotUtf8Line, R!NotUtf8Line
<1>3. CASE S!DataMarkerWithoutSchema(l) /\ R!DataMarkerWithoutSchema(l)
  BY <1>3 DEF S!DataMarkerWithoutSchema, R!DataMarkerWithoutSchema
<1>4. CASE S!DataMarker(l) /\ R!DataMarker(l)
  BY <1>4 DEF S!DataMarker, R!DataMarker
<1>5. CASE S!OtherMarker(l) /\ R!OtherMarker(l)
  BY <1>5 DEF S!OtherMarker, R!OtherMarker
<1>6. CASE S!CreatedText(l) /\ R!CreatedText(l)
  BY <1>6 DEF S!CreatedText, R!CreatedText
<1>7. CASE S!PreambleText(l) /\ R!PreambleText(l)
  BY <1>7 DEF S!PreambleText, R!PreambleText
<1>8. CASE S!ColumnNamesText(l) /\ R!ColumnNamesText(l)
  BY <1>8 DEF S!ColumnNamesText, R!ColumnNamesText
<1>9. CASE S!ChannelUnitsText(l) /\ R!ChannelUnitsText(l)
  BY <1>9 DEF S!ChannelUnitsText, R!ChannelUnitsText
<1>10. CASE S!HeaderText(l) /\ R!HeaderText(l)
  BY <1>10 DEF S!HeaderText, R!HeaderText
<1>11. CASE S!RecordOverLimit(l) /\ R!RecordOverLimit(l)
  BY <1>11 DEF S!RecordOverLimit, R!RecordOverLimit
<1>12. CASE S!AcceptRecord(l) /\ R!AcceptRecord(l)
  BY <1>12 DEF S!AcceptRecord, R!AcceptRecord
<1> QED
  BY <1>1, <1>2, <1>3, <1>4, <1>5, <1>6, <1>7, <1>8, <1>9, <1>10, <1>11, <1>12

\* The recovering side reports what the strict side stops at, or may not.
Reported(kind) ==
  \/ r_issues' = <<[line |-> s_line', kind |-> kind]>>
  \/ r_result' = R!Fatal("IssueLimit") /\ MaxIssues = 0 /\ r_line' = s_line'

(* A diagnostic pushed on the line where strict parsing stopped reports that stop. *)
LEMMA ReportsTheStop ==
  ASSUME Alike, NEW kind, R!PushIssue(kind), r_line' = s_line'
  PROVE  Reported(kind)
<1>1. r_issues = <<>> /\ Len(r_issues) = 0
  BY DEF Alike
<1>2. CASE MaxIssues = 0
  BY <1>1, <1>2 DEF R!PushIssue, R!Return, Reported
<1>3. CASE MaxIssues > 0
  <2>1. r_issues' = Append(<<>>, [line |-> s_line', kind |-> kind])
    BY <1>1, <1>3, EntryPointsAssumption DEF R!PushIssue
  <2> QED
    BY <2>1 DEF Reported
<1> QED
  BY <1>2, <1>3, EntryPointsAssumption

(* A sequence is a prefix of itself. *)
LEMMA PrefixOfItself ==
  ASSUME NEW T, NEW s \in Seq(T)
  PROVE  IsPrefix(s, s)
BY DEF IsPrefix

(* Where the strict side stops at a record, the first diagnostic says why. *)
LEMMA StopStep ==
  ASSUME Alike, s_result = S!Running, SP!TypeOK, NEW l \in Lines,
         \/ s_section # "data" /\ S!OversizedLine(l) /\ R!OversizedLine(l)
         \/ s_section = "data" /\ S!OversizedLine(l) /\ R!OversizedRecord(l)
         \/ S!RejectRecord(l) /\ R!OmitRecord(l)
  PROVE  s_result' \in RecordErrors /\ FirstIssueIsTheStrictError'
<1> USE TwinWords, OtherResults DEF Alike, S!ReadLine, R!ReadLine, S!Return, R!Return,
    S!header, R!header, S!schema, R!schema, S!table, R!table
<1>1. PICK T : s_delivered \in Seq(T)
  BY DEF SP!TypeOK
<1>2. IsPrefix(s_delivered, s_delivered)
  BY <1>1, PrefixOfItself
<1>3. CASE s_section # "data" /\ S!OversizedLine(l) /\ R!OversizedLine(l)
  BY <1>2, <1>3 DEF S!OversizedLine, R!OversizedLine, FirstIssueIsTheStrictError
<1>4. ASSUME NEW kind, s_result' = kind, kind \in RecordErrors, Reported(kind),
             s_delivered' = s_delivered, r_delivered' = r_delivered
      PROVE  s_result' \in RecordErrors /\ FirstIssueIsTheStrictError'
  <2>1. IsPrefix(s_delivered', r_delivered')
    BY <1>2, <1>4
  <2>2. CASE r_issues' = <<[line |-> s_line', kind |-> kind]>>
    BY <1>4, <2>1, <2>2 DEF FirstIssueIsTheStrictError
  <2> QED
    BY <1>4, <2>1, <2>2 DEF Reported, FirstIssueIsTheStrictError
<1>5. CASE s_section = "data" /\ S!OversizedLine(l) /\ R!OversizedRecord(l)
  <2>1. Reported(S!LineTooLong)
    BY <1>5, ReportsTheStop DEF S!OversizedLine, R!OversizedRecord
  <2> QED
    BY <1>4, <1>5, <2>1 DEF S!OversizedLine, R!OversizedRecord
<1>6. CASE S!RejectRecord(l) /\ R!OmitRecord(l)
  <2>1. PICK kind : kind = S!ParsedRow(l.text).error
    OBVIOUS
  <2>2. kind \in RecordErrors
    BY <1>6, <2>1, RejectionsAreRecordErrors DEF S!RejectRecord
  <2>3. Reported(kind)
    BY <1>6, <2>1, ReportsTheStop DEF S!RejectRecord, R!OmitRecord
  <2> QED
    BY <1>4, <1>6, <2>1, <2>2, <2>3 DEF S!RejectRecord, R!OmitRecord
<1> QED
  BY <1>3, <1>5, <1>6

(* What the recovering side does afterwards takes nothing back.            *)
LEMMA RecoveryGoesOn ==
  ASSUME NEW l, R!Step(l), RP!TypeOK
  PROVE  \/ r_delivered' = r_delivered
         \/ \E sample : r_delivered' = Append(r_delivered, sample)
<1> USE DEF R!table
<1> QED
  BY DEF R!Step, R!OversizedRecord, R!OversizedLine, R!BlankLine, R!NotUtf8Line,
     R!DataMarkerWithoutSchema, R!DataMarker, R!OtherMarker, R!CreatedText, R!PreambleText,
     R!ColumnNamesText, R!ChannelUnitsText, R!HeaderText, R!RecordOverLimit, R!AcceptRecord,
     R!OmitRecord, R!RejectRecord

(* Diagnostics are only appended. *)
LEMMA IssuesGoOn ==
  ASSUME NEW l, R!Step(l), RP!TypeOK
  PROVE  \/ r_issues' = r_issues
         \/ \E issue : r_issues' = Append(r_issues, issue)
<1> USE DEF R!PushIssue
<1> QED
  BY DEF R!Step, R!OversizedRecord, R!OversizedLine, R!BlankLine, R!NotUtf8Line,
     R!DataMarkerWithoutSchema, R!DataMarker, R!OtherMarker, R!CreatedText, R!PreambleText,
     R!ColumnNamesText, R!ChannelUnitsText, R!HeaderText, R!RecordOverLimit, R!AcceptRecord,
     R!OmitRecord, R!RejectRecord

(* A prefix stays one when the longer sequence grows. *)
LEMMA PrefixGrows ==
  ASSUME NEW T, NEW s \in Seq(T), NEW t \in Seq(T), NEW x, IsPrefix(s, t)
  PROVE  IsPrefix(s, Append(t, x))
<1> DEFINE Both == T \cup {x}
<1>1. PICK n \in Nat : n = Len(s) /\ n <= Len(t) /\ SubSeq(s, 1, n) = SubSeq(t, 1, n)
  BY DEF IsPrefix
<1>2. PICK longer \in Seq(Both) : longer = Append(t, x)
  <2>1. t \in Seq(Both) /\ x \in Both
    OBVIOUS
  <2> HIDE DEF Both
  <2>2. Append(t, x) \in Seq(Both)
    BY <2>1, AppendProperties
  <2> QED
    BY <2>2
<1>3. t \in Seq(Both) /\ Len(longer) = Len(t) + 1 /\ \A i \in 1..Len(t) : longer[i] = t[i]
  BY <1>2
<1>4. PICK m \in Nat : m = Len(t)
  OBVIOUS
<1>5. n \in 0..Len(t) /\ n \in 0..Len(longer)
  BY <1>1, <1>3, <1>4
<1> HIDE DEF Both
<1>6. /\ SubSeq(t, 1, n) \in Seq(Both) /\ Len(SubSeq(t, 1, n)) = n
      /\ \A i \in 1..n : SubSeq(t, 1, n)[i] = t[i]
  BY <1>3, <1>5, PrefixFacts
<1>7. /\ SubSeq(longer, 1, n) \in Seq(Both) /\ Len(SubSeq(longer, 1, n)) = n
      /\ \A i \in 1..n : SubSeq(longer, 1, n)[i] = longer[i]
  BY <1>5, PrefixFacts
<1>8. \A i \in 1..n : SubSeq(longer, 1, n)[i] = SubSeq(t, 1, n)[i]
  BY <1>1, <1>3, <1>4, <1>6, <1>7
<1>9. SubSeq(longer, 1, n) = SubSeq(t, 1, n)
  BY <1>6, <1>7, <1>8, SeqEqual
<1> QED
  BY <1>1, <1>2, <1>3, <1>4, <1>9 DEF IsPrefix

(* Once strict parsing has stopped at a record, what recovery does next    *)
(* leaves its first diagnostic and the rows it delivered alone.            *)
LEMMA AfterTheStop ==
  ASSUME TwinInv, SP!TypeOK, RP!TypeOK, s_result \in RecordErrors, UNCHANGED strict,
         \/ UNCHANGED recovering
         \/ /\ r_result = R!Running
            /\ r_recover' = r_recover
            /\ r_delivered' = r_delivered \/ \E x : r_delivered' = Append(r_delivered, x)
            /\ r_issues' = r_issues \/ \E x : r_issues' = Append(r_issues, x)
  PROVE  TwinInv'
<1>1. /\ s_recover' = s_recover /\ s_result' = s_result /\ s_delivered' = s_delivered
      /\ s_line' = s_line /\ s_section' = s_section
  BY DEF strict
<1>2. CASE UNCHANGED recovering
  BY <1>1, <1>2 DEF TwinInv, FirstIssueIsTheStrictError, recovering
<1>3. CASE /\ r_result = R!Running
           /\ r_recover' = r_recover
           /\ r_delivered' = r_delivered \/ \E x : r_delivered' = Append(r_delivered, x)
           /\ r_issues' = r_issues \/ \E x : r_issues' = Append(r_issues, x)
  <2>1. r_result # R!Fatal("IssueLimit") /\ r_result # s_result
    BY <1>3, OtherResults DEF R!Running, R!Fatal, S!Running
  <2>2. r_issues # <<>> /\ Head(r_issues) = [line |-> s_line, kind |-> s_result]
    BY <2>1 DEF TwinInv, FirstIssueIsTheStrictError
  <2>3. r_issues' # <<>> /\ Head(r_issues') = [line |-> s_line, kind |-> s_result]
    <3>1. PICK T : r_issues \in Seq(T)
      BY DEF RP!TypeOK
    <3>2. ASSUME NEW x, r_issues' = Append(r_issues, x)
          PROVE  r_issues' # <<>> /\ Head(r_issues') = Head(r_issues)
      <4>1. PICK n \in Nat : n = Len(r_issues)
        BY <3>1
      <4>2. n > 0
        BY <2>2, <3>1, <4>1
      <4>3. PICK longer : longer = Append(r_issues, x)
        OBVIOUS
      <4>4. Len(longer) = n + 1 /\ longer[1] = r_issues[1]
        BY <3>1, <4>1, <4>2, <4>3
      <4> QED
        BY <3>2, <4>3, <4>4, <4>1
    <3> QED
      BY <1>3, <2>2, <3>2
  <2>4. IsPrefix(s_delivered, r_delivered')
    <3>1. PICK T : s_delivered \in Seq(T) /\ r_delivered \in Seq(T)
      <4>1. PICK T1 : s_delivered \in Seq(T1)
        BY DEF SP!TypeOK
      <4>2. PICK T2 : r_delivered \in Seq(T2)
        BY DEF RP!TypeOK
      <4>3. s_delivered \in Seq(T1 \cup T2) /\ r_delivered \in Seq(T1 \cup T2)
        BY <4>1, <4>2
      <4> QED
        BY <4>3
    <3>2. IsPrefix(s_delivered, r_delivered)
      BY DEF TwinInv, FirstIssueIsTheStrictError
    <3> QED
      BY <1>3, <3>1, <3>2, PrefixGrows
  <2> QED
    BY <1>1, <1>3, <2>3, <2>4 DEF TwinInv, FirstIssueIsTheStrictError
<1> QED
  BY <1>2, <1>3

(* TwinInv holds before the first line. *)
LEMMA TwinInit == Init => TwinInv
<1> SUFFICES ASSUME Init PROVE TwinInv
  OBVIOUS
<1>1. S!Running = R!Running /\ s_result \notin RecordErrors
  BY OtherResults DEF Init, S!Init, S!Running, R!Running
<1>2. Alike
  BY <1>1 DEF Init, S!Init, R!Init, S!Section, R!Section, Alike
<1> QED
  BY <1>1, <1>2 DEF Init, TwinInv, FirstIssueIsTheStrictError

(* A line, read by whichever sides still read, keeps the invariant.        *)
LEMMA TwinRead ==
  ASSUME TwinInv, SP!TypeOK, RP!TypeOK, ReadLine
  PROVE  TwinInv'
<1>1. PICK l \in Lines : /\ S!Running \in {s_result, r_result}
                         /\ StrictStep(l) /\ RecoveringStep(l)
  BY DEF ReadLine
<1>2. R!Running = S!Running
  BY DEF R!Running, S!Running
<1>3. CASE s_result \in RecordErrors
  <2>1. UNCHANGED strict
    BY <1>1, <1>3, OtherResults DEF StrictStep
  <2>2. CASE r_result = R!Running
    <3>1. R!Step(l)
      BY <1>1, <2>2 DEF RecoveringStep
    <3>2. r_recover' = r_recover
      BY <3>1 DEF R!Step, R!ReadLine, R!OversizedRecord, R!OversizedLine, R!BlankLine, R!NotUtf8Line,
         R!DataMarkerWithoutSchema, R!DataMarker, R!OtherMarker, R!CreatedText, R!PreambleText,
         R!ColumnNamesText, R!ChannelUnitsText, R!HeaderText, R!RecordOverLimit, R!AcceptRecord,
         R!OmitRecord, R!RejectRecord
    <3>3. r_delivered' = r_delivered \/ \E x : r_delivered' = Append(r_delivered, x)
      BY <3>1, RecoveryGoesOn
    <3>4. r_issues' = r_issues \/ \E x : r_issues' = Append(r_issues, x)
      BY <3>1, IssuesGoOn
    <3> QED
      BY <1>3, <2>1, <2>2, <3>2, <3>3, <3>4, AfterTheStop
  <2>3. CASE r_result # R!Running
    BY <1>1, <1>3, <2>1, <2>3, AfterTheStop DEF RecoveringStep
  <2> QED
    BY <2>2, <2>3
<1>4. CASE s_result \notin RecordErrors
  <2>1. Alike /\ ~s_recover /\ r_recover
    BY <1>4 DEF TwinInv
  <2>2. s_result = S!Running /\ r_result = R!Running
    BY <1>1, <1>2, <2>1 DEF Alike
  <2>3. S!Step(l) /\ R!Step(l)
    BY <1>1, <2>2 DEF StrictStep, RecoveringStep
  <2>4. ~s_recover' /\ r_recover'
    <3>1. s_recover' = s_recover
      BY <2>3 DEF S!Step, S!ReadLine, S!OversizedRecord, S!OversizedLine, S!BlankLine, S!NotUtf8Line,
         S!DataMarkerWithoutSchema, S!DataMarker, S!OtherMarker, S!CreatedText, S!PreambleText,
         S!ColumnNamesText, S!ChannelUnitsText, S!HeaderText, S!RecordOverLimit, S!AcceptRecord,
         S!OmitRecord, S!RejectRecord
    <3>2. r_recover' = r_recover
      BY <2>3 DEF R!Step, R!ReadLine, R!OversizedRecord, R!OversizedLine, R!BlankLine, R!NotUtf8Line,
         R!DataMarkerWithoutSchema, R!DataMarker, R!OtherMarker, R!CreatedText, R!PreambleText,
         R!ColumnNamesText, R!ChannelUnitsText, R!HeaderText, R!RecordOverLimit, R!AcceptRecord,
         R!OmitRecord, R!RejectRecord
    <3> QED
      BY <2>1, <3>1, <3>2
  <2>5. \/ Alike' /\ s_result' \notin RecordErrors
        \/ s_result' \in RecordErrors /\ FirstIssueIsTheStrictError'
    BY <2>1, <2>2, <2>3, SameWay, SameWaySameState, StopStep
  <2>6. RecordErrors' = RecordErrors
    BY DEF RecordErrors, S!IssueKind, S!LineTooLong, S!RowError
  <2> QED
    BY <2>4, <2>5, <2>6 DEF TwinInv, FirstIssueIsTheStrictError
<1> QED
  BY <1>3, <1>4

(* The end of the input reaches both parsers alike. *)
LEMMA TwinEnd ==
  ASSUME TwinInv, SP!TypeOK, RP!TypeOK, End
  PROVE  TwinInv'
<1> USE DEF S!Return, R!Return, S!header, R!header, S!schema, R!schema, S!table, R!table
<1>1. R!Running = S!Running
  BY DEF R!Running, S!Running
<1>2. CASE s_result \in RecordErrors
  <2>1. UNCHANGED strict
    BY <1>2, OtherResults DEF End
  <2>2. CASE r_result = R!Running
    <3>1. R!EndWithoutData \/ R!EndOfInput
      BY <2>2 DEF End
    <3>2. r_recover' = r_recover /\ r_delivered' = r_delivered /\ r_issues' = r_issues
      BY <3>1 DEF R!EndWithoutData, R!EndOfInput
    <3> QED
      BY <1>2, <2>1, <2>2, <3>2, AfterTheStop
  <2>3. CASE r_result # R!Running
    BY <1>2, <2>1, <2>3, AfterTheStop DEF End
  <2> QED
    BY <2>2, <2>3
<1>3. CASE s_result \notin RecordErrors
  <2>1. Alike /\ ~s_recover /\ r_recover
    BY <1>3 DEF TwinInv
  <2>2. s_result = S!Running /\ r_result = R!Running
    BY <1>1, <2>1 DEF Alike, End
  <2>3. /\ S!EndWithoutData \/ S!EndOfInput
        /\ R!EndWithoutData \/ R!EndOfInput
    BY <2>2 DEF End
  <2>4. CASE S!EndWithoutData
    BY <2>1, <2>3, <2>4, OtherResults, TwinWords
       DEF Alike, S!EndWithoutData, R!EndWithoutData, R!EndOfInput, S!FatalTag, TwinInv,
           FirstIssueIsTheStrictError
  <2>5. CASE S!EndOfInput
    BY <2>1, <2>3, <2>5, OtherResults, TwinWords
       DEF Alike, S!EndOfInput, R!EndWithoutData, R!EndOfInput, TwinInv,
           FirstIssueIsTheStrictError
  <2> QED
    BY <2>3, <2>4, <2>5
<1> QED
  BY <1>2, <1>3

(* TwinInv holds throughout. *)
LEMMA TwinCorrect == Spec => []TwinInv
<1>1. ASSUME TwinInv, SP!TypeOK, RP!TypeOK, [Next]_vars PROVE TwinInv'
  <2>1. CASE UNCHANGED vars
    BY <1>1, <2>1 DEF vars, strict, recovering, TwinInv, Alike, FirstIssueIsTheStrictError
  <2> QED
    BY <1>1, <2>1, TwinRead, TwinEnd DEF Next
<1> QED
  BY <1>1, TwinInit, BothTyped, PTL DEF Spec

-----------------------------------------------------------------------------
(* Options change nothing for an input without defective records: strict   *)
(* and recovering parses agree in all they return, whatever the alphabet,  *)
(* the limits and the length of the input.                                 *)
THEOREM ModesAgree == Spec => []CleanInputsParseAlike
<1>1. TwinInv => CleanInputsParseAlike
  BY DEF TwinInv, Alike, CleanInputsParseAlike, RecoveringReport, StrictReport
<1> QED
  BY <1>1, TwinCorrect, PTL

(* What strict parsing fails at is what recovery reports first.            *)
THEOREM RecoveryReportsTheStrictError == Spec => []FirstIssueIsTheStrictError
<1>1. TwinInv => FirstIssueIsTheStrictError
  BY DEF TwinInv
<1> QED
  BY <1>1, TwinCorrect, PTL
=============================================================================
