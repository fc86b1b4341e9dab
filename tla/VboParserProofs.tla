--------------------------- MODULE VboParserProofs ---------------------------
(***************************************************************************)
(* Theorems about the section state machine, for every line alphabet,      *)
(* every limit and inputs of any length.                                   *)
(***************************************************************************)
EXTENDS VboParserProps, BasicLemmas

USE DEF header, schema, table

(* A text that reaches the loop body is a non-empty sequence of fields.    *)
LEMMA LineFacts ==
  ASSUME NEW l \in Lines
  PROVE  /\ l \in Line
         /\ l.kind = "text" => l.text \in Text
         /\ l.kind = "text" => l.text \in Seq(Field)
<1>1. l \in Line  BY ParserAssumption
<1> QED  BY <1>1 DEF Line, Text

(* `Section::from_marker` always names a section.                          *)
LEMMA FromMarkerType == \A name : FromMarker(name) \in Section
  BY DEF FromMarker, KnownName, Section

(* `apply_units` keeps the number of columns and their names.              *)
LEMMA ApplyUnitsType ==
  ASSUME NEW chans \in Seq(Channel), NEW toks \in Seq(Field)
  PROVE  /\ ApplyUnits(chans, toks) \in Seq(Channel)
         /\ Len(ApplyUnits(chans, toks)) = Len(chans)
<1> DEFINE A == ApplyUnits(chans, toks)
<1>1. \A i \in 1..Len(chans) : A[i] \in Channel
  <2> TAKE i \in 1..Len(chans)
  <2>1. chans[i] \in Channel  OBVIOUS
  <2>2. CASE i <= Len(toks)
    <3>1. toks[i] \in Field  BY <2>2
    <3>2. i \in DOMAIN chans  OBVIOUS
    <3>3. A[i] = [chans[i] EXCEPT !.unit = toks[i]]  BY ONLY <2>2, <3>2, Zenon DEF A, ApplyUnits
    <3> QED  BY <2>1, <3>1, <3>3 DEF Channel
  <2>3. CASE ~(i <= Len(toks))  BY <2>1, <2>3 DEF ApplyUnits
  <2> QED  BY <2>2, <2>3
<1>2. DOMAIN A = 1..Len(chans)  BY DEF ApplyUnits
<1> HIDE DEF A
<1>3. A = [i \in 1..Len(chans) |-> A[i]]  BY <1>2 DEF A, ApplyUnits
<1>4. A \in Seq(Channel) /\ Len(A) = Len(chans)  BY <1>1, <1>3
<1> QED  BY <1>4 DEF A

(* `parse_row_into` yields numbers, or leaves the buffer as it was and     *)
(* names a record-local error.                                             *)
LEMMA ParsedRowType ==
  ASSUME TypeOK, NEW text \in Seq(Field)
  PROVE  /\ ParsedRow(text).output \in Seq(Number)
         /\ ParsedRow(text).ok => /\ ParsedRow(text).output = text
                                  /\ Len(text) = Len(channels)
         /\ ~ParsedRow(text).ok => ParsedRow(text).error \in RowError
<1>1. Len(channels) \in Nat /\ Len(text) \in Nat  BY DEF TypeOK
<1>2. CASE Len(text) # Len(channels)
  BY <1>1, <1>2 DEF ParsedRow, ParseRowInto, WrongColumnCount, RowError
<1>3. CASE Len(text) = Len(channels) /\ \E c \in DOMAIN text : text[c] \notin Number
  <2>1. FirstBad(text) \in Nat \ {0}
    <3> DEFINE Bad(n) == n \in 1..Len(text) /\ text[n] \notin Number
    <3>1. PICK c \in 1..Len(text) : Bad(c)  BY <1>3
    <3>2. \E m \in 1..Len(text) : Bad(m) /\ \A d \in 1..(m - 1) : ~Bad(d)
      <4> DEFINE S == {n \in Nat : Bad(n)}
      <4>1. S # {} /\ S \subseteq Nat  BY <3>1
      <4>2. \E m \in S : \A n \in S : m <= n
        <5> HIDE DEF S
        <5> QED  BY <4>1, LeastNat
      <4> QED  BY <4>2
    <3>3. \E m \in DOMAIN text : text[m] \notin Number /\ \A d \in 1..(m - 1) : text[d] \in Number
      BY <3>2
    <3>4. FirstBad(text) \in DOMAIN text  BY <3>3 DEF FirstBad
    <3> QED  BY <3>4
  <2> QED  BY <1>3, <2>1 DEF ParsedRow, ParseRowInto, InvalidNumber, RowError
<1>4. CASE Len(text) = Len(channels) /\ ~\E c \in DOMAIN text : text[c] \notin Number
  <2>1. text \in Seq(Number)  BY <1>4
  <2> QED  BY <1>4, <2>1 DEF ParsedRow, ParseRowInto
<1> QED  BY <1>2, <1>3, <1>4

-----------------------------------------------------------------------------
(* A line read by an action extends the history and the line number.       *)
LEMMA ReadLineType ==
  ASSUME TypeOK, NEW l \in Lines, ReadLine(l)
  PROVE  /\ recover' \in BOOLEAN
         /\ line' \in Nat /\ line' # 0
         /\ consumed' \in Seq(Line)
BY LineFacts DEF TypeOK, ReadLine

(* `push_issue` keeps the diagnostics typed.                               *)
LEMMA PushIssueType ==
  ASSUME TypeOK, NEW kind \in IssueKind, line' \in Nat \ {0}, PushIssue(kind)
  PROVE  /\ issues' \in Seq(ParseIssue)
         /\ result' \in {Running, Ok} \cup ParseError
<1>1. [line |-> line', kind |-> kind] \in ParseIssue  BY DEF ParseIssue
<1>2. CASE Len(issues) < MaxIssues
  <2>1. issues \in Seq(ParseIssue) /\ result \in {Running, Ok} \cup ParseError
    BY DEF TypeOK
  <2>2. issues' = Append(issues, [line |-> line', kind |-> kind]) /\ result' = result
    BY <1>2, <2>1, ParserAssumption DEF PushIssue
  <2> QED  BY <1>1, <2>1, <2>2
<1>3. CASE Len(issues) >= MaxIssues
  BY <1>3, ParserAssumption DEF TypeOK, PushIssue, Return, ParseError, FatalTag
<1> QED  BY <1>2, <1>3 DEF PushIssue

(* The types hold before the first line. *)
LEMMA TypeInit == Init => TypeOK
<1> SUFFICES ASSUME Init PROVE TypeOK  OBVIOUS
<1>1. recover \in BOOLEAN /\ section \in Section /\ data_seen \in BOOLEAN
  BY DEF Init, Section
<1>2. sections \in [Section -> Seq(Text)]  BY DEF Init
<1> QED  BY <1>1, <1>2 DEF Init, TypeOK

(* Every way through the loop body keeps the types.                        *)
LEMMA TypeStep ==
  ASSUME TypeOK, NEW l \in Lines, Step(l)
  PROVE  TypeOK'
<1> USE DEF Return
<1>l. l \in Line /\ (l.kind = "text" => l.text \in Text /\ l.text \in Seq(Field))
  BY LineFacts
<1>r. ReadLine(l) => recover' \in BOOLEAN /\ line' \in Nat \ {0} /\ consumed' \in Seq(Line)
  BY ReadLineType
<1>1. CASE OversizedRecord(l)
  BY <1>1, <1>r, PushIssueType DEF OversizedRecord, TypeOK, IssueKind
<1>2. CASE OversizedLine(l)
  BY <1>2, <1>r DEF OversizedLine, TypeOK, ParseError, IssueKind
<1>3. CASE BlankLine(l)
  BY <1>3, <1>r DEF BlankLine, TypeOK
<1>4. CASE NotUtf8Line(l)
  BY <1>4, <1>r DEF NotUtf8Line, TypeOK, ParseError, FatalTag
<1>5. CASE DataMarkerWithoutSchema(l)
  BY <1>5, <1>r DEF DataMarkerWithoutSchema, TypeOK, ParseError, FatalTag
<1>6. CASE DataMarker(l)
  <2>1. channels' \in Seq(Channel)  BY <1>6, ApplyUnitsType DEF DataMarker, TypeOK
  <2> QED  BY <1>6, <1>r, <2>1 DEF DataMarker, TypeOK, Section
<1>7. CASE OtherMarker(l)
  BY <1>7, <1>r, FromMarkerType DEF OtherMarker, TypeOK
<1>8. CASE CreatedText(l)
  BY <1>8, <1>l, <1>r DEF CreatedText, TypeOK
<1>9. CASE PreambleText(l)
  <2>1. sections' \in [Section -> Seq(Text)]
    <3>1. "preamble" \in Section  BY DEF Section
    <3> QED  BY <1>9, <1>l, <3>1 DEF PreambleText, PushText, TypeOK
  <2> QED  BY <1>9, <1>r, <2>1 DEF PreambleText, TypeOK
<1>10. CASE ColumnNamesText(l)
  <2> DEFINE added == [i \in DOMAIN l.text |-> [name |-> l.text[i], unit |-> NoUnit]]
  <2>1. added \in Seq(Channel)
    <3>1. l.text \in Seq(Field)  BY <1>10, <1>l DEF ColumnNamesText
    <3>2. \A i \in 1..Len(l.text) : [name |-> l.text[i], unit |-> NoUnit] \in Channel
      BY <3>1 DEF Channel
    <3> QED  BY <3>1, <3>2
  <2>2. channels' = channels \o added  BY <1>10 DEF ColumnNamesText
  <2> HIDE DEF added
  <2>3. channels' \in Seq(Channel)  BY <2>1, <2>2 DEF TypeOK
  <2> QED  BY <1>10, <1>r, <2>3 DEF ColumnNamesText, TypeOK
<1>11. CASE ChannelUnitsText(l)
  <2>1. units' \in Seq(Field)
    <3>1. l.text \in Seq(Field)  BY <1>11, <1>l DEF ChannelUnitsText
    <3>2. units \in Seq(Field)  BY DEF TypeOK
    <3>3. units' = units \o l.text  BY <1>11 DEF ChannelUnitsText
    <3> QED  BY <3>1, <3>2, <3>3
  <2> QED  BY <1>11, <1>r, <2>1 DEF ChannelUnitsText, TypeOK
<1>12. CASE HeaderText(l)
  <2>1. sections' \in [Section -> Seq(Text)]
    BY <1>12, <1>l DEF HeaderText, PushText, TypeOK
  <2> QED  BY <1>12, <1>r, <2>1 DEF HeaderText, TypeOK
<1>13. CASE RecordOverLimit(l)
  BY <1>13, <1>r DEF RecordOverLimit, TypeOK, ParseError, FatalTag
<1>14. CASE AcceptRecord(l)
  <2>1. row_values' \in Seq(Number)  BY <1>14, <1>l, ParsedRowType DEF AcceptRecord
  <2>2. values' \in Seq(Number)  BY <1>14, <2>1 DEF AcceptRecord, TypeOK
  <2>3. delivered' \in Seq(StreamSample)
    <3>1. [row |-> rows, line |-> line', values |-> row_values', channels |-> channels]
            \in StreamSample
      BY <1>14, <1>r, <2>1 DEF AcceptRecord, StreamSample, TypeOK
    <3> QED  BY <1>14, <3>1 DEF AcceptRecord, TypeOK
  <2> QED  BY <1>14, <1>r, <2>1, <2>2, <2>3 DEF AcceptRecord, TypeOK
<1>15. CASE OmitRecord(l)
  <2>1. ParsedRow(l.text).error \in IssueKind
    BY <1>15, <1>l, ParsedRowType DEF OmitRecord, IssueKind
  <2>2. row_values' \in Seq(Number)  BY <1>15, <1>l, ParsedRowType DEF OmitRecord
  <2> QED  BY <1>15, <1>r, <2>1, <2>2, PushIssueType DEF OmitRecord, TypeOK
<1>16. CASE RejectRecord(l)
  <2>1. ParsedRow(l.text).error \in ParseError
    BY <1>16, <1>l, ParsedRowType DEF RejectRecord, IssueKind, ParseError
  <2>2. row_values' \in Seq(Number)  BY <1>16, <1>l, ParsedRowType DEF RejectRecord
  <2> QED  BY <1>16, <1>r, <2>1, <2>2 DEF RejectRecord, TypeOK
<1> QED
  BY <1>1, <1>2, <1>3, <1>4, <1>5, <1>6, <1>7, <1>8, <1>9, <1>10, <1>11, <1>12, <1>13,
     <1>14, <1>15, <1>16 DEF Step

(* Every step keeps the types. *)
LEMMA TypeNext == TypeOK /\ [Next]_vars => TypeOK'
<1> SUFFICES ASSUME TypeOK, [Next]_vars PROVE TypeOK'  OBVIOUS
<1>1. CASE \E l \in Lines : Step(l)  BY <1>1, TypeStep
<1>2. CASE EndWithoutData
  BY <1>2 DEF EndWithoutData, Return, TypeOK, ParseError, FatalTag
<1>3. CASE EndOfInput
  BY <1>3, ApplyUnitsType DEF EndOfInput, Return, TypeOK
<1>4. CASE ReadFails
  BY <1>4 DEF ReadFails, Return, TypeOK, ParseError, FatalTag
<1>5. CASE UNCHANGED vars
  BY <1>5 DEF vars, TypeOK
<1> QED  BY <1>1, <1>2, <1>3, <1>4, <1>5 DEF Next, Progress

(* Types are kept by every parse: the loop's locals, the diagnostics, the  *)
(* samples the callbacks see and the value the call returns.               *)
THEOREM TypeCorrect == Spec => []TypeOK
  BY TypeInit, TypeNext, PTL DEF Spec

-----------------------------------------------------------------------------
(***************************************************************************)
(* The table's shape.  Rows are as wide as the schema was when they were   *)
(* accepted, and the schema only grows: so the first row's width bounds    *)
(* the table from below and the current width from above.                  *)
(***************************************************************************)
FirstWidth == Len(delivered[1].channels)

ShapeInv ==
  /\ Len(delivered) = rows
  /\ rows = 0 => values = <<>>
  /\ rows > 0 => /\ FirstWidth \in Nat
                 /\ FirstWidth <= Len(channels)
                 /\ rows * FirstWidth <= Len(values)
                 /\ Len(values) <= rows * Len(channels)

(* A step that only widens the schema keeps the table's shape.             *)
LEMMA ShapeWidens ==
  ASSUME TypeOK, TypeOK', ShapeInv, Len(channels) <= Len(channels)',
         UNCHANGED <<rows, values, delivered>>
  PROVE  ShapeInv'
<1>1. Len(channels) \in Nat /\ Len(channels)' \in Nat /\ rows \in Nat /\ Len(values) \in Nat
  BY DEF TypeOK
<1>2. rows * Len(channels) <= rows * Len(channels)'  BY <1>1, ProductMonotonic
<1>3. rows * Len(channels) \in Nat /\ rows * Len(channels)' \in Nat  BY <1>1
<1>4. CASE rows = 0  BY <1>4 DEF ShapeInv
<1>5. CASE rows > 0
  <2>1. rows * FirstWidth \in Nat  BY <1>1, <1>5 DEF ShapeInv
  <2> QED  BY <1>1, <1>2, <1>3, <1>5, <2>1 DEF ShapeInv, FirstWidth
<1> QED  BY <1>1, <1>4, <1>5

(* An accepted row is as wide as the schema.                               *)
LEMMA ShapeGrows ==
  ASSUME TypeOK, TypeOK', ShapeInv, NEW l \in Lines, AcceptRecord(l)
  PROVE  ShapeInv'
<1> DEFINE w == Len(channels)
           sample == [row |-> rows, line |-> line', values |-> row_values', channels |-> channels]
<1>1. w \in Nat /\ rows \in Nat /\ Len(values) \in Nat
  <2>1. values \in Seq(Number) /\ channels \in Seq(Channel) /\ rows \in Nat  BY DEF TypeOK
  <2> QED  BY <2>1
<1>2. row_values' \in Seq(Number) /\ Len(row_values') = w
  <2>1. l.text \in Seq(Field)  BY LineFacts DEF AcceptRecord
  <2>2. row_values' = ParsedRow(l.text).output /\ ParsedRow(l.text).ok  BY DEF AcceptRecord
  <2> QED  BY <2>1, <2>2, ParsedRowType
<1>3. rows' = rows + 1 /\ channels' = channels /\ values' = values \o row_values'
      /\ delivered' = Append(delivered, sample)
  BY DEF AcceptRecord
<1>4. Len(values') = Len(values) + w
  <2>1. values \in Seq(Number)  BY DEF TypeOK
  <2>2. values' = values \o row_values'  BY <1>3
  <2> HIDE DEF w
  <2>3. \A row \in Seq(Number) : Len(values \o row) = Len(values) + Len(row)  BY <2>1
  <2> QED  BY <1>2, <2>2, <2>3
<1>5. Len(delivered') = rows + 1 /\ delivered'[1] = IF rows = 0 THEN sample ELSE delivered[1]
  <2>1. delivered \in Seq(StreamSample) /\ Len(delivered) = rows  BY DEF TypeOK, ShapeInv
  <2> HIDE DEF sample
  <2> QED  BY <1>1, <1>3, <2>1
<1>6. CASE rows = 0
  <2>1. FirstWidth' = w  BY <1>5, <1>6 DEF FirstWidth
  <2>2. Len(values) = 0  BY <1>6 DEF ShapeInv
  <2>3. rows' = 1 /\ 1 * w = w  BY <1>1, <1>3, <1>6
  <2> QED  BY <1>1, <1>3, <1>4, <1>5, <1>6, <2>1, <2>2, <2>3 DEF ShapeInv
<1>7. CASE rows > 0
  <2>1. FirstWidth' = FirstWidth  BY <1>5, <1>7 DEF FirstWidth
  <2>2. FirstWidth \in Nat /\ FirstWidth <= w /\ rows * FirstWidth <= Len(values)
        /\ Len(values) <= rows * w
    BY <1>7 DEF ShapeInv
  <2>3. /\ rows' * FirstWidth = rows * FirstWidth + FirstWidth /\ rows * FirstWidth \in Nat
        /\ rows' * w = rows * w + w /\ rows * w \in Nat
    BY <1>1, <1>3, <2>2, ProductStep
  <2>4. rows' * FirstWidth <= Len(values') /\ Len(values') <= rows' * w
    <3> DEFINE low == rows * FirstWidth
               high == rows * w
    <3> HIDE DEF low, high, w
    <3> QED  BY <1>1, <1>4, <2>2, <2>3 DEF low, high
  <2>5. rows' # 0 /\ rows' > 0 /\ Len(delivered') = rows'  BY <1>1, <1>3, <1>5
  <2>6. Len(channels)' = w  BY <1>3
  <2> HIDE DEF w
  <2> QED  BY <2>1, <2>2, <2>4, <2>5, <2>6 DEF ShapeInv
<1> QED  BY <1>1, <1>6, <1>7

(* Every step keeps ShapeInv. *)
LEMMA ShapeNext == TypeOK /\ TypeOK' /\ ShapeInv /\ [Next]_vars => ShapeInv'
<1> SUFFICES ASSUME TypeOK, TypeOK', ShapeInv, [Next]_vars PROVE ShapeInv'  OBVIOUS
<1>1. Len(channels) \in Nat  BY DEF TypeOK
<1>2. CASE \E l \in Lines : Step(l)
  <2>1. PICK l \in Lines : Step(l)  BY <1>2
  <2>2. CASE AcceptRecord(l)  BY <2>2, ShapeGrows
  <2>3. CASE ColumnNamesText(l)
    <3>1. l.text \in Seq(Field)  BY <2>3, LineFacts DEF ColumnNamesText
    <3> DEFINE added == [i \in DOMAIN l.text |-> [name |-> l.text[i], unit |-> NoUnit]]
    <3>2. \A i \in 1..Len(l.text) : [name |-> l.text[i], unit |-> NoUnit] \in Channel
      BY <3>1 DEF Channel
    <3>3. added \in Seq(Channel)  BY <3>1, <3>2
    <3>4. channels' = channels \o added  BY <2>3 DEF ColumnNamesText
    <3> HIDE DEF added
    <3>5. channels \in Seq(Channel)  BY DEF TypeOK
    <3>6. Len(channels) <= Len(channels)'  BY <3>3, <3>4, <3>5
    <3> QED  BY <2>3, <3>6, ShapeWidens DEF ColumnNamesText
  <2>4. CASE DataMarker(l)
    <3>1. Len(channels)' = Len(channels)
      BY <2>4, ApplyUnitsType DEF DataMarker, TypeOK
    <3> QED  BY <1>1, <2>4, <3>1, ShapeWidens DEF DataMarker
  <2>5. CASE OmitRecord(l) \/ RejectRecord(l)
    BY <1>1, <2>5, ShapeWidens DEF OmitRecord, RejectRecord
  <2>6. CASE UNCHANGED <<channels, rows, values, delivered>>
    BY <1>1, <2>6, ShapeWidens
  <2>7. CASE OversizedRecord(l) \/ OversizedLine(l) \/ BlankLine(l) \/ NotUtf8Line(l)
    BY <2>6, <2>7 DEF OversizedRecord, OversizedLine, BlankLine, NotUtf8Line
  <2>8. CASE DataMarkerWithoutSchema(l) \/ OtherMarker(l) \/ CreatedText(l) \/ PreambleText(l)
    BY <2>6, <2>8 DEF DataMarkerWithoutSchema, OtherMarker, CreatedText, PreambleText
  <2>9. CASE ChannelUnitsText(l) \/ HeaderText(l) \/ RecordOverLimit(l)
    BY <2>6, <2>9 DEF ChannelUnitsText, HeaderText, RecordOverLimit
  <2> QED  BY <2>1, <2>2, <2>3, <2>4, <2>5, <2>7, <2>8, <2>9 DEF Step
<1>3. CASE EndOfInput
  <2>1. Len(channels)' = Len(channels)
    BY <1>3, ApplyUnitsType DEF EndOfInput, TypeOK
  <2> QED  BY <1>1, <1>3, <2>1, ShapeWidens DEF EndOfInput
<1>4. CASE EndWithoutData \/ ReadFails
  BY <1>1, <1>4, ShapeWidens DEF EndWithoutData, ReadFails
<1>5. CASE UNCHANGED vars
  BY <1>1, <1>5, ShapeWidens DEF vars
<1> QED  BY <1>2, <1>3, <1>4, <1>5 DEF Next, Progress

(* A table whose schema did not grow after its first row is rectangular:   *)
(* the cell lookup of Vbo::value stays in bounds.                          *)
THEOREM TableIsRectangular == Spec => []RectangularWhenSchemaFrozen
<1>1. Init => ShapeInv  BY DEF Init, ShapeInv
<1>2. TypeOK /\ ShapeInv => RectangularWhenSchemaFrozen
  <2> SUFFICES ASSUME TypeOK, ShapeInv, rows > 0, FirstWidth = Len(channels)
               PROVE  Len(values) = rows * Len(channels)
    BY DEF RectangularWhenSchemaFrozen, FirstWidth
  <2>1. rows * Len(channels) \in Nat /\ Len(values) \in Nat  BY DEF TypeOK
  <2> QED  BY <2>1 DEF ShapeInv
<1> QED  BY <1>1, <1>2, TypeCorrect, ShapeNext, PTL DEF Spec

-----------------------------------------------------------------------------
(***************************************************************************)
(* No record is lost.  While the loop runs, it is in the data section      *)
(* exactly when the last marker read is [data], and what was delivered or  *)
(* reported lies behind it; so the line an action reads is settled once.   *)
(***************************************************************************)
AccountInv ==
  /\ Len(consumed) = line
  /\ result = Running => (section = "data" <=> MarkerAt(line + 1) = "data")
  /\ DeliveredLines \subseteq Read
  /\ IssueLines \subseteq Read
  /\ RecordsAccountedFor

(* Reading a line does not change which marker governs the lines before.   *)
LEMMA MarkerStable ==
  ASSUME NEW l \in Line, line \in Nat, consumed \in Seq(Line), Len(consumed) = line,
         consumed' = Append(consumed, l), NEW k \in 1..(line + 1)
  PROVE  MarkerAt(k)' = MarkerAt(k)
<1> DEFINE S == {j \in 1..(k - 1) : consumed[j].kind = "marker"}
<1>1. \A j \in 1..(k - 1) : consumed'[j] = consumed[j]  OBVIOUS
<1>2. S = {j \in 1..(k - 1) : consumed'[j].kind = "marker"}  BY <1>1
<1>3. MarkerAt(k) = IF S = {} THEN "preamble" ELSE consumed[Max(S)].name  BY DEF MarkerAt, MarkersBefore
<1>4. MarkerAt(k)' = IF S = {} THEN "preamble" ELSE consumed'[Max(S)].name
  BY <1>2 DEF MarkerAt, MarkersBefore
<1>5. S # {} => Max(S) \in 1..(k - 1)
  <2>1. k - 1 \in Nat /\ S \in SUBSET (1..(k - 1))  OBVIOUS
  <2> HIDE DEF S
  <2> QED  BY <2>1, MaxOfInterval
<1> HIDE DEF S
<1> QED  BY <1>1, <1>3, <1>4, <1>5

(* A marker governs the lines after it.                                    *)
LEMMA MarkerAfter ==
  ASSUME NEW l \in Line, line \in Nat, consumed \in Seq(Line), Len(consumed) = line,
         consumed' = Append(consumed, l), line' = line + 1
  PROVE  MarkerAt(line + 1)' = IF l.kind = "marker" THEN l.name ELSE MarkerAt(line + 1)
<1> DEFINE S == {j \in 1..line : consumed[j].kind = "marker"}
           U == {j \in 1..(line + 1) : consumed'[j].kind = "marker"}
<1>1. (\A j \in 1..line : consumed'[j] = consumed[j]) /\ consumed'[line + 1] = l  OBVIOUS
<1>2. MarkerAt(line + 1) = IF S = {} THEN "preamble" ELSE consumed[Max(S)].name
  BY DEF MarkerAt, MarkersBefore
<1>3. MarkerAt(line + 1)' = IF U = {} THEN "preamble" ELSE consumed'[Max(U)].name
  <2>1. (line + 1)' - 1 = line + 1  OBVIOUS
  <2>2. U = {j \in 1..((line + 1)' - 1) : consumed'[j].kind = "marker"}  BY <2>1
  <2> QED  BY <2>2 DEF MarkerAt, MarkersBefore
<1>4. U = IF l.kind = "marker" THEN S \cup {line + 1} ELSE S  BY <1>1
<1>5. S \in SUBSET (1..line)  OBVIOUS
<1> HIDE DEF S, U
<1>6. CASE l.kind = "marker"
  <2>1. U # {} /\ U \in SUBSET (1..(line + 1)) /\ line + 1 \in U  BY <1>4, <1>5, <1>6
  <2>2. Max(U) \in U /\ \A x \in U : x <= Max(U)  BY <2>1, MaxOfInterval
  <2>3. Max(U) \in 1..(line + 1) /\ line + 1 <= Max(U)  BY <2>1, <2>2
  <2>4. Max(U) = line + 1
    <3> DEFINE m == Max(U)
    <3> HIDE DEF m
    <3>1. m \in 1..(line + 1) /\ line + 1 <= m  BY <2>3 DEF m
    <3>2. m = line + 1  BY <3>1
    <3> QED  BY <3>2 DEF m
  <2> QED  BY <1>1, <1>3, <1>6, <2>1, <2>4
<1>7. CASE l.kind # "marker"
  <2>1. S # {} => Max(S) \in 1..line  BY <1>5, MaxOfInterval
  <2> QED  BY <1>1, <1>2, <1>3, <1>4, <1>7, <2>1
<1> QED  BY <1>6, <1>7

(* Which lines are records does not depend on what is read later.          *)
LEMMA RecordsAfter ==
  ASSUME NEW l \in Line, line \in Nat, consumed \in Seq(Line), Len(consumed) = line,
         consumed' = Append(consumed, l), NEW k \in 1..(line + 1)
  PROVE  IsRecord(k)' <=> /\ MarkerAt(k) = "data"
                          /\ (IF k <= line THEN consumed[k] ELSE l).kind \in {"text", "oversized"}
<1>1. consumed'[k] = IF k <= line THEN consumed[k] ELSE l  OBVIOUS
<1>2. MarkerAt(k)' = MarkerAt(k)  BY MarkerStable
<1> QED  BY <1>1, <1>2 DEF IsRecord

(* The three ways a line is settled: it is delivered, it is reported, or   *)
(* it is not a record unless the parse stops at it.                        *)
LEMMA Settle ==
  ASSUME TypeOK, AccountInv, result = Running, NEW l \in Line,
         line' = line + 1, consumed' = Append(consumed, l),
         result' = Running =>
           (section' = "data" <=> IF l.kind = "marker" THEN l.name = "data" ELSE section = "data"),
         \/ /\ DeliveredLines' = DeliveredLines /\ IssueLines' = IssueLines
            /\ Stopped' \/ section # "data" \/ l.kind \notin {"text", "oversized"}
         \/ DeliveredLines' = DeliveredLines \cup {line + 1} /\ IssueLines' = IssueLines
         \/ DeliveredLines' = DeliveredLines /\ IssueLines' = IssueLines \cup {line + 1}
  PROVE  AccountInv'
<1>1. line \in Nat /\ consumed \in Seq(Line) /\ Len(consumed) = line
  BY DEF TypeOK, AccountInv
<1>2. Len(consumed') = line'  BY <1>1
<1>3. result' = Running => (section' = "data" <=> MarkerAt(line + 1)' = "data")
  BY <1>1, MarkerAfter DEF AccountInv
<1>4. Read = 1..line /\ Read' = 1..(line + 1) /\ line + 1 \notin Read /\ Read \subseteq Read'
      /\ line + 1 \in Read'
  BY <1>1 DEF Read
<1>5. \A k \in Read : IsRecord(k)' <=> IsRecord(k)
  <2> TAKE k \in Read
  <2>1. k \in 1..(line + 1) /\ k <= line  BY <1>1, <1>4
  <2> QED  BY <1>1, <2>1, RecordsAfter DEF IsRecord
<1>6. \A k \in {line + 1} :
        IsRecord(k)' <=> section = "data" /\ l.kind \in {"text", "oversized"}
  <2> TAKE k \in {line + 1}
  <2>1. k \in 1..(line + 1) /\ ~(k <= line) /\ k = line + 1  BY <1>1
  <2>2. section = "data" <=> MarkerAt(k) = "data"  BY <2>1 DEF AccountInv
  <2> QED  BY <1>1, <2>1, <2>2, RecordsAfter
<1>7. DeliveredLines \subseteq Read /\ IssueLines \subseteq Read
      /\ DeliveredLines \cap IssueLines = {}
      /\ \A k \in Read : IsRecord(k) => k \in DeliveredLines \cup IssueLines
  BY DEF AccountInv, RecordsAccountedFor, Stopped
<1>8. DeliveredLines' \subseteq Read' /\ IssueLines' \subseteq Read'
      /\ DeliveredLines' \cap IssueLines' = {}
  <2> DEFINE D == DeliveredLines
             I == IssueLines
  <2>1. \/ D' = D /\ I' = I
        \/ D' = D \cup {line + 1} /\ I' = I
        \/ D' = D /\ I' = I \cup {line + 1}
    OBVIOUS
  <2>2. line + 1 \notin D /\ line + 1 \notin I  BY <1>4, <1>7
  <2> HIDE DEF D, I
  <2>3. D' \subseteq Read' /\ I' \subseteq Read' /\ D' \cap I' = {}
    BY <1>4, <1>7, <2>1, <2>2 DEF D, I
  <2> QED  BY <2>3 DEF D, I
<1>9. \A k \in Read' : IsRecord(k)' /\ ~Stopped' => k \in DeliveredLines' \cup IssueLines'
  <2> TAKE k \in Read'
  <2>1. CASE k \in Read  BY <1>5, <1>7, <2>1
  <2>2. CASE k = line + 1  BY <1>6, <2>2
  <2> QED  BY <1>1, <1>4, <2>1, <2>2
<1>10. \A k \in Read' : IsRecord(k)' /\ Stopped' =>
         k \in DeliveredLines' \cup IssueLines' \cup {line'}
  <2> TAKE k \in Read'
  <2>1. CASE k \in Read  BY <1>5, <1>7, <2>1
  <2>2. CASE k = line + 1  BY <2>2
  <2> QED  BY <1>1, <1>4, <2>1, <2>2
<1>11. RecordsAccountedFor'  BY <1>8, <1>9, <1>10 DEF RecordsAccountedFor
<1> QED  BY <1>2, <1>3, <1>8, <1>11 DEF AccountInv

(* A diagnostic settles the line it was pushed on, or the parse has stopped there. *)
LEMMA PushIssueSettles ==
  ASSUME TypeOK, result = Running, line' = line + 1, NEW kind, PushIssue(kind)
  PROVE  \/ IssueLines' = IssueLines \cup {line + 1} /\ result' = Running
         \/ IssueLines' = IssueLines /\ Stopped'
<1>1. issues \in Seq(ParseIssue)  BY DEF TypeOK
<1>2. CASE Len(issues) < MaxIssues
  <2> DEFINE new == [line |-> line', kind |-> kind]
  <2>1. issues' = Append(issues, new) /\ result' = result
    BY <1>1, <1>2, ParserAssumption DEF PushIssue
  <2>2. DOMAIN issues' = DOMAIN issues \cup {Len(issues) + 1}
    <3> HIDE DEF new
    <3> QED  BY <1>1, <2>1
  <2>3. (\A i \in DOMAIN issues : issues'[i] = issues[i]) /\ issues'[Len(issues) + 1] = new
    <3> HIDE DEF new
    <3> QED  BY <1>1, <2>1
  <2>4. IssueLines' = IssueLines \cup {line + 1}
    BY <2>2, <2>3 DEF IssueLines
  <2> QED  BY <2>1, <2>4
<1>3. CASE ~(Len(issues) < MaxIssues)
  <2>1. issues' = issues /\ result' = Fatal("IssueLimit")
    BY <1>3 DEF PushIssue, Return
  <2> QED  BY <2>1 DEF IssueLines, Stopped, Fatal, Running, Ok
<1> QED  BY <1>2, <1>3

(* A sample settles its line. *)
LEMMA DeliverSettles ==
  ASSUME TypeOK, NEW sample, sample.line = line + 1, delivered' = Append(delivered, sample)
  PROVE  DeliveredLines' = DeliveredLines \cup {line + 1}
<1>1. delivered \in Seq(StreamSample)  BY DEF TypeOK
<1>2. DOMAIN delivered' = DOMAIN delivered \cup {Len(delivered) + 1}  BY <1>1
<1>3. (\A i \in DOMAIN delivered : delivered'[i] = delivered[i])
      /\ delivered'[Len(delivered) + 1] = sample
  BY <1>1
<1> QED  BY <1>2, <1>3 DEF DeliveredLines

(* Every line keeps AccountInv. *)
LEMMA AccountStep ==
  ASSUME TypeOK, AccountInv, NEW l \in Lines, Step(l)
  PROVE  AccountInv'
<1> USE DEF ReadLine, Return
<1>l. l \in Line  BY LineFacts
<1>d. delivered' = delivered => DeliveredLines' = DeliveredLines  BY DEF DeliveredLines
<1>i. issues' = issues => IssueLines' = IssueLines  BY DEF IssueLines
<1>f. \A t \in FatalTag : result' = Fatal(t) => Stopped' /\ result' # Running
  BY DEF FatalTag, Fatal, Stopped, Running, Ok
<1>1. CASE OversizedRecord(l)
  BY <1>1, <1>l, <1>d, PushIssueSettles, Settle DEF OversizedRecord, Stopped
<1>2. CASE OversizedLine(l)
  <2>1. Stopped' /\ result' # Running
    BY <1>2 DEF OversizedLine, LineTooLong, Stopped, Running, Ok
  <2> QED  BY <1>2, <1>l, <1>d, <1>i, <2>1, Settle DEF OversizedLine
<1>3. CASE BlankLine(l)
  BY <1>3, <1>l, <1>d, <1>i, Settle DEF BlankLine
<1>4. CASE NotUtf8Line(l)
  BY <1>4, <1>l, <1>d, <1>i, <1>f, Settle DEF NotUtf8Line, FatalTag
<1>5. CASE DataMarkerWithoutSchema(l)
  BY <1>5, <1>l, <1>d, <1>i, <1>f, Settle DEF DataMarkerWithoutSchema, FatalTag
<1>6. CASE DataMarker(l)
  <2>1. l.name = "data"  BY <1>6 DEF DataMarker, FromMarker
  <2> QED  BY <1>6, <1>l, <1>d, <1>i, <2>1, Settle DEF DataMarker
<1>7. CASE OtherMarker(l)
  <2>1. l.name # "data"
    BY <1>7 DEF OtherMarker, FromMarker, KnownName, Section
  <2> QED  BY <1>7, <1>l, <1>d, <1>i, <2>1, Settle DEF OtherMarker
<1>8. CASE CreatedText(l)
  BY <1>8, <1>l, <1>d, <1>i, Settle DEF CreatedText
<1>9. CASE PreambleText(l)
  BY <1>9, <1>l, <1>d, <1>i, Settle DEF PreambleText
<1>10. CASE ColumnNamesText(l)
  BY <1>10, <1>l, <1>d, <1>i, Settle DEF ColumnNamesText
<1>11. CASE ChannelUnitsText(l)
  BY <1>11, <1>l, <1>d, <1>i, Settle DEF ChannelUnitsText
<1>12. CASE HeaderText(l)
  BY <1>12, <1>l, <1>d, <1>i, Settle DEF HeaderText
<1>13. CASE RecordOverLimit(l)
  BY <1>13, <1>l, <1>d, <1>i, <1>f, Settle DEF RecordOverLimit, FatalTag
<1>14. CASE AcceptRecord(l)
  <2> DEFINE sample == [row |-> rows, line |-> line', values |-> row_values', channels |-> channels]
  <2>1. delivered' = Append(delivered, sample) /\ sample.line = line + 1
    BY <1>14 DEF AcceptRecord
  <2>2. DeliveredLines' = DeliveredLines \cup {line + 1}
    <3> HIDE DEF sample
    <3> QED  BY <2>1, DeliverSettles
  <2> QED  BY <1>14, <1>l, <1>i, <2>2, Settle DEF AcceptRecord
<1>15. CASE OmitRecord(l)
  BY <1>15, <1>l, <1>d, PushIssueSettles, Settle DEF OmitRecord, Stopped
<1>16. CASE RejectRecord(l)
  <2>1. ParsedRow(l.text).error \in RowError
    BY <1>16, LineFacts, ParsedRowType DEF RejectRecord
  <2>2. Stopped' /\ result' # Running
    BY <1>16, <2>1 DEF RejectRecord, RowError, Stopped, Running, Ok
  <2> QED  BY <1>16, <1>l, <1>d, <1>i, <2>2, Settle DEF RejectRecord
<1> QED
  BY <1>1, <1>2, <1>3, <1>4, <1>5, <1>6, <1>7, <1>8, <1>9, <1>10, <1>11, <1>12, <1>13,
     <1>14, <1>15, <1>16 DEF Step

(* Returning reads no further line.                                        *)
LEMMA AccountReturn ==
  ASSUME AccountInv, result = Running, result' # Running,
         UNCHANGED <<line, consumed, delivered, issues>>
  PROVE  AccountInv'
<1>1. Read' = Read /\ DeliveredLines' = DeliveredLines /\ IssueLines' = IssueLines
  BY DEF Read, DeliveredLines, IssueLines
<1>2. \A k : IsRecord(k)' = IsRecord(k)  BY DEF IsRecord, MarkerAt, MarkersBefore
<1>3. {k \in Read : IsRecord(k)} \subseteq DeliveredLines \cup IssueLines
  BY DEF AccountInv, RecordsAccountedFor, Stopped
<1> QED  BY <1>1, <1>2, <1>3 DEF AccountInv, RecordsAccountedFor

(* Every step keeps AccountInv. *)
LEMMA AccountNext == TypeOK /\ AccountInv /\ [Next]_vars => AccountInv'
<1> SUFFICES ASSUME TypeOK, AccountInv, [Next]_vars PROVE AccountInv'  OBVIOUS
<1>1. CASE \E l \in Lines : Step(l)  BY <1>1, AccountStep
<1>2. CASE EndWithoutData
  BY <1>2, AccountReturn DEF EndWithoutData, Return, Fatal, Running
<1>3. CASE EndOfInput
  BY <1>3, AccountReturn DEF EndOfInput, Return, Ok, Running
<1>4. CASE ReadFails
  BY <1>4, AccountReturn DEF ReadFails, Return, Fatal, Running
<1>5. CASE UNCHANGED vars
  <2>1. UNCHANGED <<section, line, issues, result, consumed, delivered>>  BY <1>5 DEF vars
  <2>2. Read' = Read /\ DeliveredLines' = DeliveredLines /\ IssueLines' = IssueLines
        /\ Stopped' = Stopped
    BY <2>1 DEF Read, DeliveredLines, IssueLines, Stopped
  <2>3. \A k : IsRecord(k)' = IsRecord(k)  BY <2>1 DEF IsRecord, MarkerAt, MarkersBefore
  <2>4. MarkerAt(line + 1)' = MarkerAt(line + 1)  BY <2>1 DEF MarkerAt, MarkersBefore
  <2>5. RecordsAccountedFor'  BY <2>1, <2>2, <2>3 DEF AccountInv, RecordsAccountedFor
  <2> QED  BY <2>1, <2>2, <2>4, <2>5 DEF AccountInv
<1> QED  BY <1>1, <1>2, <1>3, <1>4, <1>5 DEF Next, Progress

(* Every record line of a [data] section is delivered or reported, exactly *)
(* once, except the one the parse stops at: in both modes, for every limit.*)
THEOREM NoRecordIsLost == Spec => []RecordsAccountedFor
<1>1. Init => AccountInv
  <2> SUFFICES ASSUME Init PROVE AccountInv  OBVIOUS
  <2>1. line = 0 /\ consumed = <<>> /\ issues = <<>> /\ delivered = <<>> /\ section = "preamble"
    BY DEF Init
  <2>2. Read = {} /\ DeliveredLines = {} /\ IssueLines = {}
    BY <2>1 DEF Read, DeliveredLines, IssueLines
  <2>3. MarkerAt(line + 1) = "preamble"  BY <2>1 DEF MarkerAt, MarkersBefore
  <2> QED  BY <2>1, <2>2, <2>3 DEF AccountInv, RecordsAccountedFor
<1>2. AccountInv => RecordsAccountedFor  BY DEF AccountInv
<1> QED  BY <1>1, <1>2, TypeCorrect, AccountNext, PTL DEF Spec

-----------------------------------------------------------------------------
(***************************************************************************)
(* What the loop knows of the lines behind it.  The section is the one the *)
(* last marker names, and the schema is as wide as the column names read.  *)
(***************************************************************************)
SectionAt(k) == IF MarkersBefore(k) = {} THEN "preamble" ELSE FromMarker(MarkerAt(k))

HistoryInv ==
  /\ Len(consumed) = line
  /\ result = Running => section = SectionAt(line + 1)
  /\ Len(channels) = WidthAt(line + 1)

\* One line more.
Reads(l) ==
  /\ l \in Line
  /\ line \in Nat /\ line' = line + 1
  /\ consumed \in Seq(Line) /\ Len(consumed) = line
  /\ consumed' = Append(consumed, l)

(* A line read is appended to those consumed, which stay as they are. *)
LEMMA ConsumedAfter ==
  ASSUME NEW l, Reads(l)
  PROVE  /\ consumed' \in Seq(Line) /\ Len(consumed') = line'
         /\ consumed'[line + 1] = l
         /\ \A k \in 1..line : consumed'[k] = consumed[k]
         /\ Read' = Read \cup {line + 1} /\ Read = 1..line /\ line + 1 \notin Read
         /\ \A k \in Read' : k \in Read \/ k = line + 1
BY DEF Reads, Read

(* The markers before a line, and the names, are settled when it is read.  *)
LEMMA MarkersStable ==
  ASSUME NEW l, Reads(l), NEW k \in 1..(line + 1)
  PROVE  /\ MarkersBefore(k)' = MarkersBefore(k)
         /\ MarkerAt(k)' = MarkerAt(k)
         /\ SectionAt(k)' = SectionAt(k)
<1>1. \A j \in 1..(k - 1) : consumed'[j] = consumed[j]
  BY DEF Reads
<1>2. MarkersBefore(k)' = MarkersBefore(k)
  BY <1>1 DEF MarkersBefore
<1>3. MarkerAt(k)' = MarkerAt(k)
  BY MarkerStable DEF Reads
<1> QED
  BY <1>2, <1>3 DEF SectionAt

(* What a line is, and which marker governs it, does not depend on later lines. *)
LEMMA GovernsStable ==
  ASSUME NEW l, Reads(l), NEW k \in 1..line
  PROVE  /\ IsText(k)' = IsText(k)
         /\ InPreamble(k)' = InPreamble(k)
         /\ \A name : Governs(name, k)' = Governs(name, k)
<1>1. consumed'[k] = consumed[k] /\ k \in 1..(line + 1)
  BY DEF Reads
<1>2. MarkersBefore(k)' = MarkersBefore(k) /\ MarkerAt(k)' = MarkerAt(k)
  BY <1>1, MarkersStable
<1> QED
  BY <1>1, <1>2 DEF IsText, InPreamble, Governs

(* Neither do the channel names before it. *)
LEMMA NamesStable ==
  ASSUME NEW l, Reads(l), NEW k \in 1..(line + 1)
  PROVE  NamesBefore(k)' = NamesBefore(k) /\ WidthAt(k)' = WidthAt(k)
<1> DEFINE N(j) == IF Governs("column names", j) THEN consumed[j].text ELSE <<>>
<1>1. \A j \in 1..(k - 1) : N(j)' = N(j)
  <2> TAKE j \in 1..(k - 1)
  <2>1. j \in 1..line /\ consumed'[j] = consumed[j]
    BY DEF Reads
  <2>2. Governs("column names", j)' = Governs("column names", j)
    BY <2>1, GovernsStable
  <2> QED
    BY <2>1, <2>2
<1>2. [j \in 1..(k - 1) |-> N(j)]' = [j \in 1..(k - 1) |-> N(j)]
  <2> HIDE DEF N
  <2> QED
    BY <1>1
<1>3. NamesBefore(k)' = NamesBefore(k)
  BY <1>2 DEF NamesBefore
<1> QED
  BY <1>3 DEF WidthAt

(* So is the verdict on every line behind.                                 *)
LEMMA VerdictStable ==
  ASSUME NEW l, Reads(l), NEW k \in 1..line
  PROVE  /\ IsText(k)' = IsText(k)
         /\ IsRecord(k)' = IsRecord(k)
         /\ IsWholeRow(k)' = IsWholeRow(k)
         /\ Defect(k)' = Defect(k)
         /\ WidthAt(k)' = WidthAt(k)
         /\ consumed'[k] = consumed[k]
<1>1. consumed'[k] = consumed[k] /\ k \in 1..(line + 1)
  BY DEF Reads
<1>2. WidthAt(k)' = WidthAt(k) /\ MarkerAt(k)' = MarkerAt(k)
  BY <1>1, MarkersStable, NamesStable
<1>3. IsText(k)' = IsText(k) /\ BadColumns(k)' = BadColumns(k)
  BY <1>1 DEF IsText, BadColumns
<1>4. IsRecord(k)' = IsRecord(k)
  BY <1>1, <1>2 DEF IsRecord
<1>5. IsWholeRow(k)' = IsWholeRow(k)
  BY <1>1, <1>2, <1>3 DEF IsWholeRow
<1>6. Defect(k)' = Defect(k)
  BY <1>1, <1>2, <1>3 DEF Defect
<1> QED
  BY <1>1, <1>2, <1>3, <1>4, <1>5, <1>6

(* None of it changes when no line is read.                                *)
LEMMA VerdictKept ==
  ASSUME UNCHANGED consumed
  PROVE  \A k : /\ IsText(k)' = IsText(k)
                /\ IsRecord(k)' = IsRecord(k)
                /\ IsWholeRow(k)' = IsWholeRow(k)
                /\ Defect(k)' = Defect(k)
                /\ WidthAt(k)' = WidthAt(k)
                /\ SectionAt(k)' = SectionAt(k)
<1>1. \A k : MarkersBefore(k)' = MarkersBefore(k)
  BY DEF MarkersBefore
<1>2. \A k : MarkerAt(k)' = MarkerAt(k) /\ SectionAt(k)' = SectionAt(k)
  BY <1>1 DEF MarkerAt, SectionAt
<1>3. \A k : IsText(k)' = IsText(k) /\ BadColumns(k)' = BadColumns(k)
  BY DEF IsText, BadColumns
<1>4. \A k : Governs("column names", k)' = Governs("column names", k)
  BY <1>1, <1>2, <1>3 DEF Governs
<1>5. \A k : NamesBefore(k)' = NamesBefore(k)
  BY <1>4 DEF NamesBefore
<1>6. \A k : WidthAt(k)' = WidthAt(k)
  BY <1>5 DEF WidthAt
<1>7. \A k : IsRecord(k)' = IsRecord(k)
  BY <1>2 DEF IsRecord
<1>8. \A k : IsWholeRow(k)' = IsWholeRow(k)
  BY <1>3, <1>6 DEF IsWholeRow
<1>9. \A k : Defect(k)' = Defect(k)
  BY <1>3, <1>6 DEF Defect
<1> QED
  BY <1>2, <1>3, <1>6, <1>7, <1>8, <1>9

(* Markers name a section: "preamble" is none of those they can name.      *)
LEMMA SectionNames ==
  /\ \A name : FromMarker(name) # "preamble"
  /\ \A s \in KnownName : \A name : FromMarker(name) = s <=> name = s
  /\ \A name \in MarkerName : FromMarker(name) = "other" <=> name \in UnknownName
<1>1. \A name : FromMarker(name) # "preamble"
  BY DEF FromMarker, KnownName
<1>2. \A s \in KnownName : \A name : FromMarker(name) = s <=> name = s
  BY DEF FromMarker, KnownName
<1>3. \A name \in MarkerName : FromMarker(name) = "other" <=> name \in UnknownName
  BY ParserAssumption DEF FromMarker, MarkerName, KnownName
<1> QED
  BY <1>1, <1>2, <1>3

(* The last marker before a line is one of the lines before it.            *)
LEMMA MarkerIsNamed ==
  ASSUME consumed \in Seq(Line), NEW k \in 1..(Len(consumed) + 1), MarkersBefore(k) # {}
  PROVE  MarkerAt(k) \in MarkerName
<1>1. k - 1 \in Nat /\ MarkersBefore(k) \in SUBSET (1..(k - 1))
  BY DEF MarkersBefore
<1>2. Max(MarkersBefore(k)) \in MarkersBefore(k)
  BY <1>1, MaxOfInterval
<1>3. PICK j \in 1..(k - 1) : j = Max(MarkersBefore(k)) /\ consumed[j].kind = "marker"
  BY <1>1, <1>2 DEF MarkersBefore
<1>4. consumed[j] \in Line
  OBVIOUS
<1>5. consumed[j].name \in MarkerName
  BY <1>3, <1>4 DEF Line
<1> QED
  BY <1>3, <1>5 DEF MarkerAt

(* What governs the line just read, from the section the loop was in.      *)
LEMMA GovernsNow ==
  ASSUME NEW l, Reads(l), NEW m, m = line + 1
  PROVE  /\ m \in 1..(line + 1) /\ m \in Nat
         /\ IsText(m)' <=> l.kind = "text"
         /\ InPreamble(m)' <=> l.kind = "text" /\ SectionAt(m) = "preamble"
         /\ \A s \in KnownName :
              Governs(s, m)' <=> l.kind = "text" /\ SectionAt(m) = s
         /\ (\E name \in UnknownName : Governs(name, m)') <=>
              l.kind = "text" /\ SectionAt(m) = "other"
<1>1. m \in 1..(line + 1) /\ m \in Nat /\ consumed'[m] = l
  BY ConsumedAfter DEF Reads
<1>2. MarkersBefore(m)' = MarkersBefore(m) /\ MarkerAt(m)' = MarkerAt(m)
  BY <1>1, MarkersStable
<1>3. IsText(m)' <=> l.kind = "text"
  BY <1>1 DEF IsText
<1>4. InPreamble(m)' <=> l.kind = "text" /\ SectionAt(m) = "preamble"
  BY <1>2, <1>3, SectionNames DEF InPreamble, SectionAt
<1>5. \A name : Governs(name, m)' <=> l.kind = "text" /\ MarkersBefore(m) # {} /\ MarkerAt(m) = name
  BY <1>2, <1>3 DEF Governs
<1>6. \A s \in KnownName : SectionAt(m) = s <=> MarkersBefore(m) # {} /\ MarkerAt(m) = s
  <2>1. "preamble" \notin KnownName
    BY DEF KnownName
  <2> QED
    BY <2>1, SectionNames DEF SectionAt
<1>7. SectionAt(m) = "other" <=> MarkersBefore(m) # {} /\ MarkerAt(m) \in UnknownName
  <2>1. MarkersBefore(m) # {} => MarkerAt(m) \in MarkerName
    BY <1>1, MarkerIsNamed DEF Reads
  <2> QED
    BY <2>1, SectionNames DEF SectionAt
<1> QED
  BY <1>1, <1>3, <1>4, <1>5, <1>6, <1>7

(* A marker opens a section for the lines after it.                        *)
LEMMA SectionAfter ==
  ASSUME NEW l, Reads(l)
  PROVE  SectionAt(line + 1)' = IF l.kind = "marker" THEN FromMarker(l.name)
                                ELSE SectionAt(line + 1)
<1>1. MarkerAt(line + 1)' = IF l.kind = "marker" THEN l.name ELSE MarkerAt(line + 1)
  BY MarkerAfter DEF Reads
<1>2. MarkersBefore(line + 1)' = IF l.kind = "marker" THEN MarkersBefore(line + 1) \cup {line + 1}
                                 ELSE MarkersBefore(line + 1)
  <2>1. \A j \in 1..line : consumed'[j] = consumed[j]
    BY ConsumedAfter
  <2>2. consumed'[line + 1] = l /\ line \in Nat /\ line' = line + 1
    BY ConsumedAfter DEF Reads
  <2> QED
    BY <2>1, <2>2 DEF MarkersBefore
<1> QED
  BY <1>1, <1>2 DEF SectionAt

(* A line of [column names] widens the schema by its fields.               *)
NamesIn(j) == IF Governs("column names", j) THEN consumed[j].text ELSE <<>>

(* A line contributes fields, or nothing. *)
LEMMA NamesInTyped ==
  ASSUME consumed \in Seq(Line), NEW j \in 1..Len(consumed)
  PROVE  NamesIn(j) \in Seq(Field)
<1>1. consumed[j] \in Line
  OBVIOUS
<1>2. CASE Governs("column names", j)
  <2>1. consumed[j].text \in Text
    BY <1>1, <1>2 DEF Governs, IsText, Line
  <2>2. NamesIn(j) = consumed[j].text
    BY <1>2 DEF NamesIn
  <2> QED
    BY <2>1, <2>2 DEF Text
<1>3. CASE ~Governs("column names", j)
  <2>1. NamesIn(j) = <<>>
    BY <1>3 DEF NamesIn
  <2> QED
    BY <2>1
<1> QED
  BY <1>2, <1>3

(* The names before a line are fields. *)
LEMMA NamesTyped ==
  ASSUME consumed \in Seq(Line), NEW k \in 1..(Len(consumed) + 1)
  PROVE  NamesBefore(k) \in Seq(Field) /\ WidthAt(k) \in Nat
<1>1. \A j \in 1..(k - 1) : NamesIn(j) \in Seq(Field)
  BY NamesInTyped
<1>2. [j \in 1..(k - 1) |-> NamesIn(j)] \in Seq(Seq(Field))
  <2>1. k - 1 \in Nat
    OBVIOUS
  <2> QED
    BY <1>1, <2>1
<1>3. FlattenSeq([j \in 1..(k - 1) |-> NamesIn(j)]) \in Seq(Field)
  BY <1>2, FlattenType
<1>4. NamesBefore(k) \in Seq(Field)
  BY <1>3 DEF NamesBefore, NamesIn
<1> QED
  BY <1>4 DEF WidthAt

(* A line under [column names] adds its fields to the names before it; no other line adds any. *)
LEMMA NamesAfter ==
  ASSUME NEW l, Reads(l)
  PROVE  /\ NamesBefore(line + 1) \in Seq(Field)
         /\ NamesBefore(line + 1)' =
              IF l.kind = "text" /\ SectionAt(line + 1) = "column names"
                THEN NamesBefore(line + 1) \o l.text ELSE NamesBefore(line + 1)
         /\ l.kind = "text" => l.text \in Seq(Field)
<1> DEFINE ss == [j \in 1..line |-> NamesIn(j)]
           tt == [j \in 1..(line + 1) |-> NamesIn(j)']
           here == l.kind = "text" /\ SectionAt(line + 1) = "column names"
<1>0. line \in Nat /\ line' = line + 1 /\ line + 1 - 1 = line /\ line' + 1 - 1 = line + 1
      /\ line + 1 \in 1..(Len(consumed) + 1) /\ consumed \in Seq(Line) /\ consumed' \in Seq(Line)
      /\ Len(consumed') = line + 1 /\ Len(consumed) = line
  BY DEF Reads
<1>2. NamesBefore(line + 1) \in Seq(Field)
  BY <1>0, NamesTyped
<1>3. NamesBefore(line + 1) = FlattenSeq(ss)
  BY <1>0 DEF NamesBefore, NamesIn
<1>4. NamesBefore(line + 1)' = FlattenSeq(tt)
  BY <1>0 DEF NamesBefore, NamesIn
<1>5. \A j \in 1..line : NamesIn(j)' = NamesIn(j)
  <2> TAKE j \in 1..line
  <2>1. consumed'[j] = consumed[j]
    BY ConsumedAfter
  <2>2. Governs("column names", j)' = Governs("column names", j)
    BY GovernsStable
  <2> QED
    BY <2>1, <2>2 DEF NamesIn
<1>6. \A j \in {line + 1} : NamesIn(j)' = IF here THEN l.text ELSE <<>>
  <2> TAKE j \in {line + 1}
  <2>1. Governs("column names", j)' <=> l.kind = "text" /\ SectionAt(j) = "column names"
    BY GovernsNow DEF KnownName, Section
  <2>2. consumed'[j] = l /\ j = line + 1
    BY ConsumedAfter
  <2>3. CASE here
    BY <2>1, <2>2, <2>3 DEF NamesIn
  <2>4. CASE ~here
    BY <2>1, <2>2, <2>4 DEF NamesIn
  <2> QED
    BY <2>3, <2>4
<1>7. l.kind = "text" => l.text \in Seq(Field)
  BY DEF Reads, Line, Text
<1>8. \A j \in 1..(line + 1) : NamesIn(j)' \in Seq(Field)
  <2> TAKE j \in 1..(line + 1)
  <2>1. CASE j \in 1..line
    BY <1>0, <1>5, <2>1, NamesInTyped
  <2>2. CASE j \in {line + 1}
    <3>1. CASE here
      BY <1>6, <1>7, <2>2, <3>1
    <3>2. CASE ~here
      <4>1. NamesIn(j)' = <<>>
        BY <1>6, <2>2, <3>2
      <4> QED
        BY <4>1
    <3> QED
      BY <3>1, <3>2
  <2> QED
    BY <1>0, <2>1, <2>2
<1>9. ss \in Seq(Seq(Field)) /\ tt = Append(ss, tt[line + 1])
  <2>1. \A j \in 1..line : ss[j] = tt[j]
    BY <1>0, <1>5
  <2>2. ss \in [1..line -> Seq(Field)]
    BY <1>0, NamesInTyped
  <2>3. tt \in [1..(line + 1) -> Seq(Field)]
    BY <1>8
  <2> HIDE DEF ss, tt
  <2> QED
    BY <1>0, <2>1, <2>2, <2>3, OneMore
<1>10. tt[line + 1] = (IF here THEN l.text ELSE <<>>) /\ tt[line + 1] \in Seq(Field)
  <2>1. \A j \in {line + 1} : tt[j] = NamesIn(j)'
    BY <1>0
  <2> HIDE DEF tt
  <2> QED
    BY <1>0, <1>6, <1>8, <2>1
<1>11. NamesBefore(line + 1)' = NamesBefore(line + 1) \o tt[line + 1]
  <2> HIDE DEF ss, tt
  <2>1. FlattenSeq(Append(ss, tt[line + 1])) = FlattenSeq(ss) \o tt[line + 1]
    BY <1>9, <1>10, FlattenAppend
  <2> QED
    BY <1>3, <1>4, <1>9, <2>1
<1>12. NamesBefore(line + 1) \o <<>> = NamesBefore(line + 1)
  BY <1>2, ConcatNothing
<1> QED
  <2> HIDE DEF tt
  <2>1. CASE here
    BY <1>2, <1>7, <1>10, <1>11, <2>1
  <2>2. CASE ~here
    BY <1>2, <1>7, <1>10, <1>11, <1>12, <2>2
  <2> QED
    BY <2>1, <2>2

(* Every way through the loop body reads one line.                         *)
LEMMA StepReads ==
  ASSUME TypeOK, HistoryInv, NEW l \in Lines, Step(l)
  PROVE  Reads(l) /\ result = Running /\ UNCHANGED recover
<1>1. ReadLine(l)
  BY DEF Step, OversizedRecord, OversizedLine, BlankLine, NotUtf8Line, DataMarkerWithoutSchema,
         DataMarker, OtherMarker, CreatedText, PreambleText, ColumnNamesText, ChannelUnitsText,
         HeaderText, RecordOverLimit, AcceptRecord, OmitRecord, RejectRecord
<1> QED
  BY <1>1, LineFacts DEF ReadLine, Reads, TypeOK, HistoryInv

(* Which steps open a section, and which widen the schema.                 *)
LEMMA StepSection ==
  ASSUME TypeOK, HistoryInv, NEW l \in Lines, Step(l)
  PROVE  /\ result' = Running /\ l.kind = "marker" => section' = FromMarker(l.name)
         /\ result' = Running /\ l.kind # "marker" => section' = section
         /\ Len(channels') = IF l.kind = "text" /\ section = "column names"
                               THEN Len(channels) + Len(l.text) ELSE Len(channels)
<1>t. channels \in Seq(Channel) /\ units \in Seq(Field)
  BY DEF TypeOK
<1>1. CASE DataMarker(l)
  BY <1>1, <1>t, ApplyUnitsType DEF DataMarker
<1>2. CASE ColumnNamesText(l)
  <2> DEFINE added == [i \in DOMAIN l.text |-> [name |-> l.text[i], unit |-> NoUnit]]
  <2>1. l.text \in Seq(Field)
    BY <1>2, LineFacts DEF ColumnNamesText
  <2>2. added \in Seq(Channel) /\ Len(added) = Len(l.text)
    <3>1. \A i \in 1..Len(l.text) : [name |-> l.text[i], unit |-> NoUnit] \in Channel
      BY <2>1 DEF Channel
    <3> QED
      BY <2>1, <3>1
  <2>3. channels' = channels \o added /\ section' = section /\ l.kind = "text" /\ section = "column names"
    BY <1>2 DEF ColumnNamesText
  <2> HIDE DEF added
  <2>4. Len(channels \o added) = Len(channels) + Len(added)
    BY <1>t, <2>2, ConcatFacts
  <2>5. Len(channels') = Len(channels) + Len(l.text)
    BY <2>2, <2>3, <2>4
  <2> QED
    BY <2>3, <2>5
<1>3. CASE DataMarkerWithoutSchema(l)
  BY <1>3 DEF DataMarkerWithoutSchema, Return, Fatal, Running
<1>4. CASE OtherMarker(l)
  BY <1>4 DEF OtherMarker
<1>5. CASE OversizedRecord(l) \/ OversizedLine(l) \/ BlankLine(l) \/ NotUtf8Line(l)
  BY <1>5 DEF OversizedRecord, OversizedLine, BlankLine, NotUtf8Line
<1>6. CASE CreatedText(l) \/ PreambleText(l) \/ ChannelUnitsText(l) \/ HeaderText(l)
  BY <1>6 DEF CreatedText, PreambleText, ChannelUnitsText, HeaderText
<1>7. CASE RecordOverLimit(l) \/ AcceptRecord(l) \/ OmitRecord(l) \/ RejectRecord(l)
  BY <1>7 DEF RecordOverLimit, AcceptRecord, OmitRecord, RejectRecord
<1> QED
  BY <1>1, <1>2, <1>3, <1>4, <1>5, <1>6, <1>7 DEF Step

(* Every line keeps HistoryInv. *)
LEMMA HistoryStep ==
  ASSUME TypeOK, HistoryInv, NEW l \in Lines, Step(l)
  PROVE  HistoryInv'
<1>1. Reads(l) /\ result = Running
  BY StepReads
<1>2. Len(consumed') = line'
  BY <1>1, ConsumedAfter
<1>3. section = SectionAt(line + 1) /\ Len(channels) = Len(NamesBefore(line + 1))
  BY <1>1 DEF HistoryInv, WidthAt
<1>4. result' = Running => section' = SectionAt(line + 1)'
  <2>1. CASE l.kind = "marker"
    <3>1. SectionAt(line + 1)' = FromMarker(l.name)
      BY <1>1, <2>1, SectionAfter
    <3> QED
      BY <2>1, <3>1, StepSection
  <2>2. CASE l.kind # "marker"
    <3>1. SectionAt(line + 1)' = SectionAt(line + 1)
      BY <1>1, <2>2, SectionAfter
    <3> QED
      BY <1>3, <2>2, <3>1, StepSection
  <2> QED
    BY <2>1, <2>2
<1>5. Len(channels') = Len(NamesBefore(line + 1)')
  <2>1. CASE l.kind = "text" /\ section = "column names"
    <3>1. NamesBefore(line + 1)' = NamesBefore(line + 1) \o l.text
      BY <1>1, <1>3, <2>1, NamesAfter
    <3>2. NamesBefore(line + 1) \in Seq(Field) /\ l.text \in Seq(Field)
      BY <1>1, <2>1, NamesAfter
    <3>3. Len(channels') = Len(channels) + Len(l.text)
      BY <2>1, StepSection
    <3>4. Len(NamesBefore(line + 1) \o l.text) = Len(NamesBefore(line + 1)) + Len(l.text)
      BY <3>2, ConcatFacts
    <3> QED
      BY <1>3, <3>1, <3>3, <3>4
  <2>2. CASE ~(l.kind = "text" /\ section = "column names")
    <3>1. NamesBefore(line + 1)' = NamesBefore(line + 1)
      BY <1>1, <1>3, <2>2, NamesAfter
    <3>2. Len(channels') = Len(channels)
      BY <2>2, StepSection
    <3> QED
      BY <1>3, <3>1, <3>2
  <2> QED
    BY <2>1, <2>2
<1> QED
  BY <1>2, <1>4, <1>5 DEF HistoryInv, WidthAt

(* Returning without a further line, and stuttering.                       *)
Returns ==
  /\ result = Running
  /\ result' \in {Ok, Fatal("MissingData"), Fatal("Io")}
  /\ UNCHANGED <<recover, line, section, created, sections, units, data_seen, rows, row_values,
                 values, delivered, issues, consumed>>
  /\ Len(channels') = Len(channels)

(* A step takes a line, returns, or stutters. *)
LEMMA NextCases ==
  ASSUME TypeOK, [Next]_vars
  PROVE  (\E l \in Lines : Step(l)) \/ Returns \/ UNCHANGED vars
<1>1. CASE EndWithoutData \/ ReadFails
  BY <1>1 DEF EndWithoutData, ReadFails, Return, Returns
<1>2. CASE EndOfInput
  BY <1>2, ApplyUnitsType DEF EndOfInput, Return, Returns, TypeOK
<1> QED
  BY <1>1, <1>2 DEF Next, Progress

(* Every step keeps HistoryInv. *)
LEMMA HistoryNext == TypeOK /\ HistoryInv /\ [Next]_vars => HistoryInv'
<1> SUFFICES ASSUME TypeOK, HistoryInv, [Next]_vars PROVE HistoryInv'
  OBVIOUS
<1>1. CASE \E l \in Lines : Step(l)
  BY <1>1, HistoryStep
<1>2. CASE Returns
  <2>1. result' # Running /\ UNCHANGED <<line, consumed>> /\ Len(channels') = Len(channels)
    BY <1>2 DEF Returns, Ok, Fatal, Running
  <2>2. WidthAt(line + 1)' = WidthAt(line + 1)
    BY <2>1, VerdictKept
  <2> QED
    BY <2>1, <2>2 DEF HistoryInv
<1>3. CASE UNCHANGED vars
  <2>1. UNCHANGED <<line, consumed, result, section, channels>>
    BY <1>3 DEF vars
  <2>2. WidthAt(line + 1)' = WidthAt(line + 1) /\ SectionAt(line + 1)' = SectionAt(line + 1)
    BY <2>1, VerdictKept
  <2> QED
    BY <2>1, <2>2 DEF HistoryInv
<1> QED
  BY <1>1, <1>2, <1>3, NextCases

(* HistoryInv holds before the first line. *)
LEMMA HistoryInit == Init => HistoryInv
<1> SUFFICES ASSUME Init PROVE HistoryInv
  OBVIOUS
<1>1. consumed = <<>> /\ line = 0 /\ channels = <<>> /\ section = "preamble"
  BY DEF Init
<1>2. MarkersBefore(line + 1) = {}
  BY <1>1 DEF MarkersBefore
<1>3. NamesBefore(line + 1) = <<>>
  <2>1. [j \in 1..0 |-> IF Governs("column names", j) THEN consumed[j].text ELSE <<>>] = <<>>
    OBVIOUS
  <2> QED
    BY <1>1, <2>1, FlattenEmpty DEF NamesBefore
<1> QED
  BY <1>1, <1>2, <1>3 DEF HistoryInv, SectionAt, WidthAt

-----------------------------------------------------------------------------
(***************************************************************************)
(* The verdict on a data record.                                           *)
(***************************************************************************)

(* The error is about the first column that is not a number.               *)
LEMMA FirstBadIsMin ==
  ASSUME NEW text \in Seq(Field), \E c \in DOMAIN text : text[c] \notin Number
  PROVE  FirstBad(text) = Min({c \in DOMAIN text : text[c] \notin Number})
<1> DEFINE S == {c \in DOMAIN text : text[c] \notin Number}
<1>1. S \in SUBSET Nat /\ S # {} /\ S \subseteq 1..Len(text)
  OBVIOUS
<1>2. PICK m \in S : \A x \in S : m <= x
  <2> HIDE DEF S
  <2> QED
    BY <1>1, LeastNat
<1>3. \A x \in S : (\A y \in S : x <= y) => x = m
  BY <1>1, <1>2
<1>4. Min(S) = m
  <2> HIDE DEF S
  <2>1. \E x \in S : \A y \in S : x =< y
    BY <1>2
  <2>2. Min(S) \in S /\ \A y \in S : Min(S) =< y
    BY <2>1 DEF Min
  <2> QED
    BY <1>3, <2>2
<1>5. \A x \in DOMAIN text : (text[x] \notin Number /\ \A d \in 1..(x - 1) : text[d] \in Number) => x = m
  <2> TAKE x \in DOMAIN text
  <2> HAVE text[x] \notin Number /\ \A d \in 1..(x - 1) : text[d] \in Number
  <2>1. m <= x /\ m \in 1..Len(text) /\ text[m] \notin Number
    BY <1>1, <1>2
  <2>2. ~(m < x)
    BY <2>1
  <2> QED
    BY <2>1, <2>2
<1>6. m \in DOMAIN text /\ text[m] \notin Number /\ \A d \in 1..(m - 1) : text[d] \in Number
  <2>1. \A d \in 1..(m - 1) : d \in DOMAIN text /\ ~(m <= d)
    BY <1>1, <1>2
  <2> QED
    BY <1>2, <2>1
<1>7. FirstBad(text) = m
  BY <1>5, <1>6 DEF FirstBad
<1> QED
  BY <1>4, <1>7

(* `parse_row_into` accepts exactly the whole rows, and otherwise names    *)
(* the defect.                                                             *)
LEMMA RecordVerdict ==
  ASSUME TypeOK, HistoryInv, result = Running, section = "data",
         NEW l, Reads(l), NEW m, m = line + 1
  PROVE  /\ l.kind \in {"text", "oversized"} => IsRecord(m)'
         /\ l.kind = "oversized" => ~IsWholeRow(m)' /\ Defect(m)' = LineTooLong
         /\ l.kind = "text" =>
              /\ IsText(m)' /\ consumed'[m].text = l.text /\ l.text \in Seq(Field)
              /\ WidthAt(m)' = Len(channels)
              /\ ParsedRow(l.text).ok = IsWholeRow(m)'
              /\ ParsedRow(l.text).ok => ParsedRow(l.text).output = l.text
              /\ ~ParsedRow(l.text).ok => ParsedRow(l.text).error = Defect(m)'
<1>1. m \in 1..(line + 1) /\ consumed'[m] = l /\ (IsText(m)' <=> l.kind = "text")
  BY ConsumedAfter, GovernsNow
<1>2. MarkerAt(m)' = MarkerAt(m) /\ WidthAt(m)' = WidthAt(m)
  BY <1>1, MarkersStable, NamesStable
<1>3. SectionAt(m) = "data" /\ WidthAt(m) = Len(channels)
  BY DEF HistoryInv
<1>4. MarkerAt(m) = "data"
  BY <1>3, SectionNames DEF SectionAt, KnownName, Section
<1>5. l.kind \in {"text", "oversized"} => IsRecord(m)'
  BY <1>1, <1>2, <1>4 DEF IsRecord
<1>6. l.kind = "oversized" => ~IsWholeRow(m)' /\ Defect(m)' = LineTooLong
  BY <1>1 DEF IsWholeRow, Defect
<1>7. ASSUME l.kind = "text"
      PROVE  /\ ParsedRow(l.text).ok = IsWholeRow(m)'
             /\ ParsedRow(l.text).ok => ParsedRow(l.text).output = l.text
             /\ ~ParsedRow(l.text).ok => ParsedRow(l.text).error = Defect(m)'
  <2> DEFINE bad == {c \in DOMAIN l.text : l.text[c] \notin Number}
  <2>1. l.text \in Seq(Field)
    BY <1>7 DEF Reads, Line, Text
  <2>2. BadColumns(m)' = bad
    BY <1>1 DEF BadColumns
  <2>3. IsWholeRow(m)' = (Len(l.text) = Len(channels) /\ bad = {})
    BY <1>1, <1>2, <1>3, <1>7, <2>2 DEF IsWholeRow
  <2>4. Defect(m)' = IF Len(l.text) # Len(channels)
                       THEN WrongColumnCount(Len(channels), Len(l.text))
                       ELSE InvalidNumber(Min(bad))
    BY <1>1, <1>2, <1>3, <1>7, <2>2 DEF Defect
  <2>5. CASE Len(l.text) # Len(channels)
    BY <2>3, <2>4, <2>5 DEF ParsedRow, ParseRowInto
  <2>6. CASE Len(l.text) = Len(channels) /\ bad # {}
    <3>1. FirstBad(l.text) = Min(bad)
      BY <2>1, <2>6, FirstBadIsMin
    <3>2. \E c \in DOMAIN l.text : l.text[c] \notin Number
      BY <2>6
    <3>3. ParsedRow(l.text).ok = FALSE /\ ParsedRow(l.text).error = InvalidNumber(FirstBad(l.text))
      BY <2>6, <3>2 DEF ParsedRow, ParseRowInto
    <3> HIDE DEF bad
    <3> QED
      BY <2>3, <2>4, <2>6, <3>1, <3>3
  <2>7. CASE Len(l.text) = Len(channels) /\ bad = {}
    <3>1. ~\E c \in DOMAIN l.text : l.text[c] \notin Number
      BY <2>7
    <3>2. <<>> \o l.text = l.text
      BY <2>1, ConcatEmptySeq
    <3>3. ParsedRow(l.text).ok = TRUE /\ ParsedRow(l.text).output = l.text
      BY <2>7, <3>1, <3>2 DEF ParsedRow, ParseRowInto
    <3> HIDE DEF bad
    <3> QED
      BY <2>3, <2>7, <3>3
  <2> QED
    BY <2>5, <2>6, <2>7
<1> QED
  BY <1>1, <1>2, <1>3, <1>5, <1>6, <1>7 DEF Reads, Line, Text

(***************************************************************************)
(* What one line does to the rows and the diagnostics; m is its number.    *)
(***************************************************************************)
KeepsRows   == UNCHANGED <<rows, values, delivered>>
KeepsIssues == UNCHANGED issues

\* No record, or a line at which the parse stops for another reason.
Passes ==
  /\ KeepsRows /\ KeepsIssues
  /\ result' \notin RowError \cup {Fatal("RowLimit"), Fatal("IssueLimit"), Ok}

MeetsFullTable(m) ==
  /\ KeepsRows /\ KeepsIssues
  /\ rows >= MaxRows /\ IsRecord(m)' /\ IsText(m)'
  /\ result' = Fatal("RowLimit")

Delivers(l, m) ==
  /\ rows < MaxRows /\ rows' = rows + 1
  /\ IsRecord(m)' /\ IsWholeRow(m)'
  /\ l.text \in Seq(Number) /\ consumed'[m].text = l.text /\ WidthAt(m)' = Len(channels)
  /\ values' = values \o l.text
  /\ delivered' = Append(delivered,
       [row |-> rows, line |-> m, values |-> l.text, channels |-> channels])
  /\ KeepsIssues /\ result' = Running

Reports(m) ==
  /\ recover /\ KeepsRows
  /\ IsRecord(m)' /\ ~IsWholeRow(m)'
  /\ \/ /\ Len(issues) < MaxIssues
        /\ issues' = Append(issues, [line |-> m, kind |-> Defect(m)'])
        /\ result' = Running
     \/ /\ Len(issues) >= MaxIssues /\ KeepsIssues
        /\ result' = Fatal("IssueLimit")

Rejects(m) ==
  /\ ~recover /\ KeepsRows /\ KeepsIssues
  /\ IsRecord(m)' /\ result' = Defect(m)'

(* A line passes without a record, or its record meets a full table, is delivered,
   is reported or ends the parse. *)
LEMMA StepEffect ==
  ASSUME TypeOK, HistoryInv, NEW l \in Lines, Step(l), NEW m, m = line + 1
  PROVE  Passes \/ MeetsFullTable(m) \/ Delivers(l, m) \/ Reports(m) \/ Rejects(m)
<1>1. Reads(l) /\ result = Running /\ line' = m
  BY StepReads DEF Reads
<1>2. ASSUME section = "data"
      PROVE  /\ l.kind \in {"text", "oversized"} => IsRecord(m)'
             /\ l.kind = "oversized" => ~IsWholeRow(m)' /\ Defect(m)' = LineTooLong
             /\ l.kind = "text" =>
                  /\ IsText(m)' /\ consumed'[m].text = l.text /\ l.text \in Seq(Field)
                  /\ WidthAt(m)' = Len(channels)
                  /\ ParsedRow(l.text).ok = IsWholeRow(m)'
                  /\ ParsedRow(l.text).ok => ParsedRow(l.text).output = l.text
                  /\ ~ParsedRow(l.text).ok => ParsedRow(l.text).error = Defect(m)'
  BY <1>1, <1>2, RecordVerdict
<1>3. /\ Running \notin RowError \cup {Fatal("RowLimit"), Fatal("IssueLimit"), Ok}
      /\ LineTooLong \notin RowError \cup {Fatal("RowLimit"), Fatal("IssueLimit"), Ok}
      /\ Fatal("InvalidUtf8") \notin RowError \cup {Fatal("RowLimit"), Fatal("IssueLimit"), Ok}
      /\ Fatal("MissingColumnNames") \notin
           RowError \cup {Fatal("RowLimit"), Fatal("IssueLimit"), Ok}
  BY DEF Running, LineTooLong, Fatal, RowError, Ok
<1>4. Len(issues) \in Nat /\ rows \in Nat /\ MaxIssues \in Nat /\ MaxRows \in Nat
  BY ParserAssumption DEF TypeOK
<1>5. CASE OversizedRecord(l)
  <2>1. IsRecord(m)' /\ ~IsWholeRow(m)' /\ Defect(m)' = LineTooLong
    BY <1>2, <1>5 DEF OversizedRecord
  <2>2. recover /\ KeepsRows /\ PushIssue(LineTooLong)
    BY <1>5 DEF OversizedRecord, KeepsRows
  <2> QED
    BY <1>1, <2>1, <2>2 DEF Reports, PushIssue, Return, KeepsIssues
<1>6. CASE OversizedLine(l) \/ BlankLine(l) \/ NotUtf8Line(l)
  BY <1>1, <1>3, <1>6
     DEF OversizedLine, BlankLine, NotUtf8Line, Passes, KeepsRows, KeepsIssues, Return
<1>7. CASE DataMarkerWithoutSchema(l) \/ DataMarker(l) \/ OtherMarker(l)
  BY <1>1, <1>3, <1>7
     DEF DataMarkerWithoutSchema, DataMarker, OtherMarker, Passes, KeepsRows, KeepsIssues, Return
<1>8. CASE CreatedText(l) \/ PreambleText(l) \/ ColumnNamesText(l) \/ ChannelUnitsText(l)
           \/ HeaderText(l)
  BY <1>1, <1>3, <1>8
     DEF CreatedText, PreambleText, ColumnNamesText, ChannelUnitsText, HeaderText, Passes,
         KeepsRows, KeepsIssues
<1>9. CASE RecordOverLimit(l)
  <2>1. IsRecord(m)' /\ IsText(m)'
    BY <1>2, <1>9 DEF RecordOverLimit
  <2> QED
    BY <1>9, <2>1 DEF RecordOverLimit, MeetsFullTable, TableFull, KeepsRows, KeepsIssues, Return
<1>10. CASE AcceptRecord(l)
  <2>1. ParsedRow(l.text).ok /\ row_values' = ParsedRow(l.text).output
        /\ l.kind = "text" /\ section = "data" /\ rows < MaxRows
    BY <1>4, <1>10 DEF AcceptRecord, TableFull
  <2>2. row_values' = l.text /\ IsWholeRow(m)' /\ IsRecord(m)' /\ WidthAt(m)' = Len(channels)
        /\ consumed'[m].text = l.text
    BY <1>2, <2>1
  <2>3. l.text \in Seq(Number)
    BY <1>2, <2>1, <2>2, ParsedRowType
  <2>4. /\ values' = values \o row_values' /\ rows' = rows + 1
        /\ delivered' = Append(delivered,
             [row |-> rows, line |-> line', values |-> row_values', channels |-> channels])
        /\ UNCHANGED <<issues, result>>
    BY <1>10 DEF AcceptRecord
  <2> QED
    BY <1>1, <2>1, <2>2, <2>3, <2>4 DEF Delivers, KeepsIssues
<1>11. CASE OmitRecord(l)
  <2>1. ~ParsedRow(l.text).ok /\ l.kind = "text" /\ section = "data"
    BY <1>11 DEF OmitRecord
  <2>2. ~IsWholeRow(m)' /\ IsRecord(m)' /\ ParsedRow(l.text).error = Defect(m)'
    BY <1>2, <2>1
  <2>3. recover /\ KeepsRows /\ PushIssue(ParsedRow(l.text).error)
    BY <1>11 DEF OmitRecord, KeepsRows
  <2> QED
    BY <1>1, <2>2, <2>3 DEF Reports, PushIssue, Return, KeepsIssues
<1>12. CASE RejectRecord(l)
  <2>1. ~ParsedRow(l.text).ok /\ l.kind = "text" /\ section = "data"
    BY <1>12 DEF RejectRecord
  <2>2. IsRecord(m)' /\ ParsedRow(l.text).error = Defect(m)'
    BY <1>2, <2>1
  <2> QED
    BY <1>12, <2>2 DEF RejectRecord, Rejects, Return, KeepsRows, KeepsIssues
<1> QED
  BY <1>5, <1>6, <1>7, <1>8, <1>9, <1>10, <1>11, <1>12 DEF Step

(* The line just read, by its number or as the last one.                   *)
LEMMA AtLine ==
  ASSUME NEW m, line' = m
  PROVE  /\ IsText(line)' = IsText(m)'
         /\ IsRecord(line)' = IsRecord(m)'
         /\ IsWholeRow(line)' = IsWholeRow(m)'
         /\ Defect(line)' = Defect(m)'
<1>1. MarkersBefore(line)' = MarkersBefore(m)'
  BY DEF MarkersBefore
<1>2. MarkerAt(line)' = MarkerAt(m)'
  BY <1>1 DEF MarkerAt
<1>3. NamesBefore(line)' = NamesBefore(m)'
  BY DEF NamesBefore
<1>4. WidthAt(line)' = WidthAt(m)' /\ BadColumns(line)' = BadColumns(m)'
  BY <1>3 DEF WidthAt, BadColumns
<1>5. IsText(line)' = IsText(m)'
  BY DEF IsText
<1>6. IsRecord(line)' = IsRecord(m)'
  BY <1>2 DEF IsRecord
<1>7. IsWholeRow(line)' = IsWholeRow(m)'
  BY <1>4, <1>5 DEF IsWholeRow
<1>8. Defect(line)' = Defect(m)'
  BY <1>4, <1>5 DEF Defect
<1> QED
  BY <1>5, <1>6, <1>7, <1>8

-----------------------------------------------------------------------------
(***************************************************************************)
(* Diagnostics name lines behind the loop, so a verdict once given stands. *)
(***************************************************************************)
IssuesInv ==
  \A i \in DOMAIN issues :
    /\ issues[i].line \in Read
    /\ i > 1 => issues[i - 1].line < issues[i].line
    /\ \A k \in Read : issues[i].line = k =>
         IsRecord(k) /\ ~IsWholeRow(k) /\ issues[i].kind = Defect(k)

(* Every line keeps IssuesInv. *)
LEMMA IssuesStep ==
  ASSUME TypeOK, HistoryInv, IssuesInv, NEW l \in Lines, Step(l)
  PROVE  IssuesInv'
<1>1. Reads(l) /\ line \in Nat /\ line' = line + 1
  BY StepReads DEF Reads
<1>2. PICK m \in Nat : m = line + 1
  BY <1>1
<1>3. Passes \/ MeetsFullTable(m) \/ Delivers(l, m) \/ Reports(m) \/ Rejects(m)
  BY <1>2, StepEffect
<1>4. Read = 1..line /\ Read' = Read \cup {m} /\ m \notin Read /\ \A k \in Read : k < m
  BY <1>1, <1>2, ConsumedAfter
<1>5. \A i \in DOMAIN issues :
        /\ issues[i].line \in Read'
        /\ i > 1 => issues[i - 1].line < issues[i].line
        /\ \A k \in Read' : issues[i].line = k =>
             IsRecord(k)' /\ ~IsWholeRow(k)' /\ issues[i].kind = Defect(k)'
  BY <1>1, <1>4, VerdictStable DEF IssuesInv
<1>6. CASE KeepsIssues
  BY <1>5, <1>6 DEF IssuesInv, KeepsIssues
<1>7. CASE issues' = Append(issues, [line |-> m, kind |-> Defect(m)'])
           /\ IsRecord(m)' /\ ~IsWholeRow(m)'
  <2>1. issues \in Seq(ParseIssue) /\ DOMAIN issues = 1..Len(issues) /\ Len(issues) \in Nat
    BY DEF TypeOK
  <2>2. /\ DOMAIN issues' = 1..(Len(issues) + 1)
        /\ \A i \in 1..Len(issues) : issues'[i] = issues[i]
        /\ issues'[Len(issues) + 1].line = m
        /\ issues'[Len(issues) + 1].kind = Defect(m)'
    BY <1>7, <2>1
  <2>3. \A k \in {m} : IsRecord(k)' /\ ~IsWholeRow(k)' /\ Defect(k)' = Defect(m)'
    BY <1>7
  <2>4. \A i \in DOMAIN issues' :
          /\ issues'[i].line \in Read'
          /\ i > 1 => issues'[i - 1].line < issues'[i].line
          /\ \A k \in Read' : issues'[i].line = k =>
               IsRecord(k)' /\ ~IsWholeRow(k)' /\ issues'[i].kind = Defect(k)'
    <3> TAKE i \in DOMAIN issues'
    <3>1. CASE i \in 1..Len(issues)
      <4>1. i > 1 => i - 1 \in 1..Len(issues)
        BY <2>1, <3>1
      <4> QED
        BY <1>5, <2>1, <2>2, <3>1, <4>1
    <3>2. CASE i = Len(issues) + 1
      <4>1. i > 1 => i - 1 \in DOMAIN issues /\ issues'[i - 1].line < m
        <5> SUFFICES ASSUME i > 1 PROVE i - 1 \in DOMAIN issues /\ issues'[i - 1].line < m
          OBVIOUS
        <5>1. i - 1 \in 1..Len(issues)
          BY <2>1, <3>2
        <5>2. issues[i - 1].line \in Read
          BY <2>1, <5>1 DEF IssuesInv
        <5> QED
          BY <1>4, <2>1, <2>2, <5>1, <5>2
      <4>2. issues'[i].line = m /\ issues'[i].kind = Defect(m)'
        BY <2>2, <3>2
      <4> QED
        BY <1>4, <2>3, <4>1, <4>2
    <3> QED
      BY <2>1, <2>2, <3>1, <3>2
  <2> QED
    BY <2>4 DEF IssuesInv
<1> QED
  BY <1>3, <1>6, <1>7 DEF Passes, MeetsFullTable, Delivers, Reports, Rejects

(* Every step keeps IssuesInv. *)
LEMMA IssuesNext == TypeOK /\ HistoryInv /\ IssuesInv /\ [Next]_vars => IssuesInv'
<1> SUFFICES ASSUME TypeOK, HistoryInv, IssuesInv, [Next]_vars PROVE IssuesInv'
  OBVIOUS
<1>1. CASE \E l \in Lines : Step(l)
  BY <1>1, IssuesStep
<1>2. CASE Returns \/ UNCHANGED vars
  <2>1. UNCHANGED <<line, consumed, issues>>
    BY <1>2 DEF Returns, vars
  <2> QED
    BY <2>1, VerdictKept DEF IssuesInv, Read
<1> QED
  BY <1>1, <1>2, NextCases

(* The history of the lines read decides the section and the schema.       *)
LEMMA HistoryCorrect == Spec => []HistoryInv
BY HistoryInit, HistoryNext, TypeCorrect, PTL DEF Spec

(* The diagnostics are about lines read, and true of them.                 *)
LEMMA IssuesCorrect == Spec => []IssuesInv
<1>1. Init => IssuesInv
  BY DEF Init, IssuesInv
<1> QED
  BY <1>1, IssuesNext, HistoryCorrect, TypeCorrect, PTL DEF Spec

(* Every diagnostic of a recovering parse is true of the line it names,    *)
(* for every input: the line is a record that is not a whole row, and the  *)
(* reason is its own, measured against the columns named before it.        *)
THEOREM DiagnosticsAreTrue == Spec => []IssuesMatchSource
<1>1. IssuesInv => IssuesMatchSource
  BY DEF IssuesInv, IssuesMatchSource
<1> QED
  BY <1>1, IssuesCorrect, PTL

-----------------------------------------------------------------------------
(***************************************************************************)
(* The samples, in the same way, and the table they add up to.             *)
(***************************************************************************)
RowsInv ==
  /\ Len(delivered) = rows
  /\ \A i \in DOMAIN delivered :
       /\ delivered[i].row = i - 1
       /\ delivered[i].line \in Read
       /\ i > 1 => delivered[i - 1].line < delivered[i].line
       /\ \A k \in Read : delivered[i].line = k =>
            /\ IsRecord(k) /\ IsWholeRow(k)
            /\ delivered[i].values = consumed[k].text
            /\ Len(delivered[i].channels) = WidthAt(k)
  /\ values = FlattenSeq([i \in DOMAIN delivered |-> delivered[i].values])

(* One row more at the end of the table.                                   *)
LEMMA TableGrows ==
  ASSUME NEW s \in Seq(StreamSample), NEW x \in StreamSample
  PROVE  FlattenSeq([i \in DOMAIN Append(s, x) |-> Append(s, x)[i].values]) =
           FlattenSeq([i \in DOMAIN s |-> s[i].values]) \o x.values
<1> DEFINE n == Len(s)
           t == Append(s, x)
           f == [i \in 1..n |-> s[i].values]
           g == [i \in 1..(n + 1) |-> t[i].values]
<1>1. n \in Nat /\ DOMAIN s = 1..n /\ DOMAIN t = 1..(n + 1) /\ t[n + 1] = x
      /\ \A i \in 1..n : t[i] = s[i]
  OBVIOUS
<1>2. x.values \in Seq(Number) /\ \A i \in 1..n : s[i].values \in Seq(Number)
  <2>1. \A y \in StreamSample : y.values \in Seq(Number)
    BY DEF StreamSample
  <2> QED
    BY <2>1
<1> HIDE DEF t, n
<1>3. f \in [1..n -> Seq(Number)]
  BY <1>2
<1>4. g \in [1..(n + 1) -> Seq(Number)]
  <2>1. \A i \in 1..(n + 1) : t[i].values \in Seq(Number)
    <3> TAKE i \in 1..(n + 1)
    <3>1. i \in 1..n \/ i = n + 1
      BY <1>1
    <3> QED
      BY <1>1, <1>2, <3>1
  <2> QED
    BY <2>1
<1>5. g[n + 1] = x.values
  BY <1>1
<1>6. \A i \in 1..n : f[i] = g[i]
  BY <1>1
<1> HIDE DEF f, g
<1>7. f \in Seq(Seq(Number)) /\ g = Append(f, x.values)
  BY <1>1, <1>3, <1>4, <1>5, <1>6, OneMore
<1>8. FlattenSeq(g) = FlattenSeq(f) \o x.values
  BY <1>2, <1>7, FlattenAppend
<1> QED
  BY <1>1, <1>8 DEF f, g, t

(* Every line keeps RowsInv. *)
LEMMA RowsStep ==
  ASSUME TypeOK, TypeOK', HistoryInv, RowsInv, NEW l \in Lines, Step(l)
  PROVE  RowsInv'
<1>1. Reads(l) /\ line \in Nat /\ line' = line + 1
  BY StepReads DEF Reads
<1>2. PICK m \in Nat : m = line + 1
  BY <1>1
<1>3. Passes \/ MeetsFullTable(m) \/ Delivers(l, m) \/ Reports(m) \/ Rejects(m)
  BY <1>2, StepEffect
<1>4. Read = 1..line /\ Read' = Read \cup {m} /\ m \notin Read /\ \A k \in Read : k < m
  BY <1>1, <1>2, ConsumedAfter
<1>5. \A i \in DOMAIN delivered :
        /\ delivered[i].row = i - 1
        /\ delivered[i].line \in Read'
        /\ i > 1 => delivered[i - 1].line < delivered[i].line
        /\ \A k \in Read' : delivered[i].line = k =>
             /\ IsRecord(k)' /\ IsWholeRow(k)'
             /\ delivered[i].values = consumed'[k].text
             /\ Len(delivered[i].channels) = WidthAt(k)'
  <2>1. \A k \in Read : /\ IsRecord(k)' = IsRecord(k) /\ IsWholeRow(k)' = IsWholeRow(k)
                        /\ consumed'[k] = consumed[k] /\ WidthAt(k)' = WidthAt(k)
    BY <1>1, <1>4, VerdictStable
  <2> TAKE i \in DOMAIN delivered
  <2>2. /\ delivered[i].row = i - 1
        /\ delivered[i].line \in Read
        /\ i > 1 => delivered[i - 1].line < delivered[i].line
        /\ \A k \in Read : delivered[i].line = k =>
             /\ IsRecord(k) /\ IsWholeRow(k)
             /\ delivered[i].values = consumed[k].text
             /\ Len(delivered[i].channels) = WidthAt(k)
    BY DEF RowsInv
  <2>3. \A k \in Read' : delivered[i].line = k => k \in Read
    BY <2>2
  <2> QED
    BY <1>4, <2>1, <2>2, <2>3
<1>6. CASE KeepsRows
  BY <1>5, <1>6 DEF RowsInv, KeepsRows
<1>7. CASE Delivers(l, m)
  <2> DEFINE x == [row |-> rows, line |-> m, values |-> l.text, channels |-> channels]
  <2>1. delivered \in Seq(StreamSample) /\ DOMAIN delivered = 1..Len(delivered)
        /\ Len(delivered) \in Nat /\ Len(delivered) = rows
    BY DEF TypeOK, RowsInv
  <2>2. delivered' = Append(delivered, x) /\ values' = values \o x.values /\ rows' = rows + 1
    BY <1>7 DEF Delivers
  <2>3. x \in StreamSample
    <3>1. l.text \in Seq(Number) /\ m \in Nat \ {0}
      BY <1>1, <1>2, <1>7 DEF Delivers
    <3> QED
      BY <3>1 DEF TypeOK, StreamSample
  <2>4. x.row = rows /\ x.line = m /\ x.values = l.text /\ x.channels = channels
    OBVIOUS
  <2> HIDE DEF x
  <2>5. /\ DOMAIN delivered' = 1..(rows + 1) /\ Len(delivered') = rows'
        /\ \A i \in 1..rows : delivered'[i] = delivered[i]
        /\ delivered'[rows + 1] = x
    BY <2>1, <2>2
  <2>6. \A k \in {m} : /\ IsRecord(k)' /\ IsWholeRow(k)'
                       /\ x.values = consumed'[k].text
                       /\ Len(x.channels) = WidthAt(k)'
    BY <1>7, <2>4 DEF Delivers
  <2>7. \A i \in DOMAIN delivered' :
          /\ delivered'[i].row = i - 1
          /\ delivered'[i].line \in Read'
          /\ i > 1 => delivered'[i - 1].line < delivered'[i].line
          /\ \A k \in Read' : delivered'[i].line = k =>
               /\ IsRecord(k)' /\ IsWholeRow(k)'
               /\ delivered'[i].values = consumed'[k].text
               /\ Len(delivered'[i].channels) = WidthAt(k)'
    <3> TAKE i \in DOMAIN delivered'
    <3>1. CASE i \in 1..rows
      <4>1. i > 1 => i - 1 \in 1..rows
        BY <2>1, <3>1
      <4> QED
        BY <1>5, <2>1, <2>5, <3>1, <4>1
    <3>2. CASE i = rows + 1
      <4>1. i > 1 => delivered'[i - 1].line < m
        <5> SUFFICES ASSUME i > 1 PROVE delivered'[i - 1].line < m
          OBVIOUS
        <5>1. i - 1 \in 1..rows
          BY <2>1, <3>2
        <5>2. delivered[i - 1].line \in Read
          BY <2>1, <5>1 DEF RowsInv
        <5> QED
          BY <1>4, <2>5, <5>1, <5>2
      <4>2. delivered'[i] = x /\ i - 1 = rows
        BY <2>1, <2>5, <3>2
      <4> QED
        BY <1>4, <2>4, <2>6, <4>1, <4>2
    <3> QED
      BY <2>1, <2>5, <3>1, <3>2
  <2>8. values' = FlattenSeq([i \in DOMAIN delivered' |-> delivered'[i].values])
    <3>1. values = FlattenSeq([i \in DOMAIN delivered |-> delivered[i].values])
      BY DEF RowsInv
    <3> QED
      BY <2>1, <2>2, <2>3, <3>1, TableGrows
  <2> QED
    BY <2>5, <2>7, <2>8 DEF RowsInv
<1> QED
  BY <1>3, <1>6, <1>7 DEF Passes, MeetsFullTable, Reports, Rejects

(* Every step keeps RowsInv. *)
LEMMA RowsNext == TypeOK /\ TypeOK' /\ HistoryInv /\ RowsInv /\ [Next]_vars => RowsInv'
<1> SUFFICES ASSUME TypeOK, TypeOK', HistoryInv, RowsInv, [Next]_vars PROVE RowsInv'
  OBVIOUS
<1>1. CASE \E l \in Lines : Step(l)
  BY <1>1, RowsStep
<1>2. CASE Returns \/ UNCHANGED vars
  <2>1. UNCHANGED <<line, consumed, rows, values, delivered>>
    BY <1>2 DEF Returns, vars
  <2> QED
    BY <2>1, VerdictKept DEF RowsInv, Read
<1> QED
  BY <1>1, <1>2, NextCases

(* RowsInv holds throughout. *)
LEMMA RowsCorrect == Spec => []RowsInv
<1>1. Init => RowsInv
  <2> SUFFICES ASSUME Init PROVE RowsInv
    OBVIOUS
  <2>1. delivered = <<>> /\ rows = 0 /\ values = <<>>
    BY DEF Init
  <2>2. [i \in DOMAIN delivered |-> delivered[i].values] = <<>>
    BY <2>1
  <2> QED
    BY <2>1, <2>2, FlattenEmpty DEF RowsInv
<1> QED
  BY <1>1, RowsNext, HistoryCorrect, TypeCorrect, PTL DEF Spec

(* Every callback gets one whole source row, in order, with the line it    *)
(* came from and the columns named before it, and `parse_reader`'s table   *)
(* is those rows laid end to end: for every input, limit and mode.         *)
THEOREM RowsAreSourceRows == Spec => []RowsMatchSource
<1>1. RowsInv => RowsMatchSource
  BY DEF RowsInv, RowsMatchSource
<1> QED
  BY <1>1, RowsCorrect, PTL

-----------------------------------------------------------------------------
(***************************************************************************)
(* How a parse ends.                                                       *)
(***************************************************************************)
StrictOutcome ==
  ~recover => /\ issues = <<>>
              /\ result \in RowError => IsRecord(line) /\ result = Defect(line)

OutcomeInv == LimitsAreExact /\ StrictOutcome

(* Every line keeps OutcomeInv. *)
LEMMA OutcomeStep ==
  ASSUME TypeOK, HistoryInv, OutcomeInv, NEW l \in Lines, Step(l)
  PROVE  OutcomeInv'
<1>1. Reads(l) /\ line \in Nat /\ line' = line + 1 /\ UNCHANGED recover /\ result = Running
  BY StepReads DEF Reads
<1>2. PICK m \in Nat : m = line + 1
  BY <1>1
<1>3. Passes \/ MeetsFullTable(m) \/ Delivers(l, m) \/ Reports(m) \/ Rejects(m)
  BY <1>2, StepEffect
<1>4. /\ IsText(line)' = IsText(m)' /\ IsRecord(line)' = IsRecord(m)'
      /\ IsWholeRow(line)' = IsWholeRow(m)' /\ Defect(line)' = Defect(m)'
  BY <1>1, <1>2, AtLine
<1>5. rows \in Nat /\ MaxRows \in Nat /\ Len(issues) \in Nat /\ MaxIssues \in Nat
      /\ rows <= MaxRows /\ Len(issues) <= MaxIssues
      /\ (~recover => issues = <<>>)
  BY ParserAssumption DEF TypeOK, OutcomeInv, LimitsAreExact, StrictOutcome
<1>6. /\ Running \notin RowError \cup {Fatal("RowLimit"), Fatal("IssueLimit")}
      /\ Fatal("RowLimit") \notin RowError \cup {Fatal("IssueLimit")}
      /\ Fatal("IssueLimit") \notin RowError
  BY DEF Running, Fatal, RowError
<1>7. CASE Passes
  BY <1>1, <1>5, <1>7
     DEF Passes, KeepsRows, KeepsIssues, OutcomeInv, LimitsAreExact, StrictOutcome
<1>8. CASE MeetsFullTable(m)
  <2>1. rows' = MaxRows /\ issues' = issues /\ result' = Fatal("RowLimit")
        /\ IsRecord(line)' /\ IsText(line)'
    BY <1>4, <1>5, <1>8 DEF MeetsFullTable, KeepsRows, KeepsIssues
  <2> QED
    BY <1>1, <1>5, <1>6, <2>1 DEF OutcomeInv, LimitsAreExact, StrictOutcome
<1>9. CASE Delivers(l, m)
  BY <1>1, <1>5, <1>6, <1>9
     DEF Delivers, KeepsIssues, OutcomeInv, LimitsAreExact, StrictOutcome
<1>10. CASE Reports(m)
  <2>1. recover /\ recover' /\ rows' = rows /\ IsRecord(line)' /\ ~IsWholeRow(line)'
    BY <1>1, <1>4, <1>10 DEF Reports, KeepsRows
  <2>2. CASE Len(issues) < MaxIssues
    <3>1. issues' = Append(issues, [line |-> m, kind |-> Defect(m)']) /\ result' = Running
      BY <1>5, <1>10, <2>2 DEF Reports
    <3>2. Len(issues') = Len(issues) + 1
      BY <3>1 DEF TypeOK
    <3> QED
      BY <1>5, <1>6, <2>1, <2>2, <3>1, <3>2 DEF OutcomeInv, LimitsAreExact, StrictOutcome
  <2>3. CASE Len(issues) >= MaxIssues
    <3>1. issues' = issues /\ result' = Fatal("IssueLimit") /\ Len(issues) = MaxIssues
      BY <1>5, <1>10, <2>3 DEF Reports, KeepsIssues
    <3> QED
      BY <1>5, <1>6, <2>1, <3>1 DEF OutcomeInv, LimitsAreExact, StrictOutcome
  <2> QED
    BY <1>5, <2>2, <2>3
<1>11. CASE Rejects(m)
  <2>1. ~recover /\ rows' = rows /\ issues' = issues /\ IsRecord(line)' /\ result' = Defect(line)'
    BY <1>4, <1>11 DEF Rejects, KeepsRows, KeepsIssues
  <2>2. Defect(line)' \notin {Fatal("RowLimit"), Fatal("IssueLimit")}
    BY DEF Defect, LineTooLong, WrongColumnCount, InvalidNumber, Fatal
  <2> QED
    BY <1>1, <1>5, <2>1, <2>2 DEF OutcomeInv, LimitsAreExact, StrictOutcome
<1> QED
  BY <1>3, <1>7, <1>8, <1>9, <1>10, <1>11

(* Every step keeps OutcomeInv. *)
LEMMA OutcomeNext == TypeOK /\ HistoryInv /\ OutcomeInv /\ [Next]_vars => OutcomeInv'
<1> SUFFICES ASSUME TypeOK, HistoryInv, OutcomeInv, [Next]_vars PROVE OutcomeInv'
  OBVIOUS
<1>1. CASE \E l \in Lines : Step(l)
  BY <1>1, OutcomeStep
<1>2. CASE Returns
  <2>1. UNCHANGED <<rows, issues, recover>>
        /\ result' \notin RowError \cup {Fatal("RowLimit"), Fatal("IssueLimit")}
    BY <1>2 DEF Returns, Ok, Fatal, RowError
  <2> QED
    BY <2>1 DEF OutcomeInv, LimitsAreExact, StrictOutcome
<1>3. CASE UNCHANGED vars
  <2>1. UNCHANGED <<rows, issues, recover, result, line, consumed>>
    BY <1>3 DEF vars
  <2>2. \A k : /\ IsText(k)' = IsText(k) /\ IsRecord(k)' = IsRecord(k)
               /\ IsWholeRow(k)' = IsWholeRow(k) /\ Defect(k)' = Defect(k)
    BY <2>1, VerdictKept
  <2> QED
    BY <2>1, <2>2 DEF OutcomeInv, LimitsAreExact, StrictOutcome
<1> QED
  BY <1>1, <1>2, <1>3, NextCases

(* OutcomeInv holds throughout. *)
LEMMA OutcomeCorrect == Spec => []OutcomeInv
<1>1. Init => OutcomeInv
  BY ParserAssumption DEF Init, OutcomeInv, LimitsAreExact, StrictOutcome, Running, Fatal, RowError
<1> QED
  BY <1>1, OutcomeNext, HistoryCorrect, TypeCorrect, PTL DEF Spec

(* The limits of ParseOptions are exact: they are never exceeded, and the  *)
(* error each raises is raised by the first record that does not fit.      *)
THEOREM CapsAreExact == Spec => []LimitsAreExact
<1>1. OutcomeInv => LimitsAreExact
  BY DEF OutcomeInv
<1> QED
  BY <1>1, OutcomeCorrect, PTL

(* A strict parse succeeds only when every record was a whole row, keeps   *)
(* no diagnostics, and fails with the offending record's own error.        *)
THEOREM StrictParsesAreTransactional == Spec => []StrictIsTransactional
<1>1. RowsInv /\ OutcomeInv /\ RecordsAccountedFor => StrictIsTransactional
  <2> SUFFICES ASSUME RowsInv, OutcomeInv, RecordsAccountedFor, ~recover
               PROVE  /\ issues = <<>>
                      /\ result = Ok => \A k \in Read : IsRecord(k) => IsWholeRow(k)
                      /\ result \in RowError => IsRecord(line) /\ result = Defect(line)
    BY DEF StrictIsTransactional
  <2>1. issues = <<>> /\ (result \in RowError => IsRecord(line) /\ result = Defect(line))
    BY DEF OutcomeInv, StrictOutcome
  <2>2. ASSUME result = Ok, NEW k \in Read, IsRecord(k) PROVE IsWholeRow(k)
    <3>1. ~Stopped /\ IssueLines = {}
      BY <2>1, <2>2 DEF Stopped, IssueLines
    <3>2. k \in DeliveredLines
      BY <2>2, <3>1 DEF RecordsAccountedFor
    <3>3. PICK i \in DOMAIN delivered : delivered[i].line = k
      BY <3>2 DEF DeliveredLines
    <3> QED
      BY <2>2, <3>3 DEF RowsInv
  <2> QED
    BY <2>1, <2>2
<1> QED
  BY <1>1, RowsCorrect, OutcomeCorrect, NoRecordIsLost, PTL

-----------------------------------------------------------------------------
(* Reading the finished table back by row and column gives the cells the   *)
(* callbacks were handed, and nothing outside it: the row-major index of   *)
(* Vbo::value is right for every width and number of rows.                 *)
THEOREM TableIsTheStream == Spec => []TableAgreesWithStream
<1>1. TypeOK /\ RowsInv => TableAgreesWithStream
  <2> DEFINE w == Len(channels)
             cells == [i \in DOMAIN delivered |-> delivered[i].values]
  <2> SUFFICES ASSUME TypeOK, RowsInv,
                      \A i \in DOMAIN delivered : Len(delivered[i].channels) = w,
                      NEW row \in 0..rows, NEW column \in 0..w
               PROVE  Value(row, column) =
                        IF row < Len(delivered) /\ column < Len(delivered[row + 1].values)
                          THEN <<delivered[row + 1].values[column + 1]>> ELSE <<>>
    BY DEF TableAgreesWithStream
  <2>1. w \in Nat /\ rows \in Nat /\ delivered \in Seq(StreamSample) /\ Len(delivered) = rows
        /\ DOMAIN delivered = 1..rows /\ row \in Nat /\ column \in Nat
    BY DEF TypeOK, RowsInv
  <2>2. \A i \in 1..rows : delivered[i].values \in Seq(Number) /\ Len(delivered[i].values) = w
    <3> TAKE i \in 1..rows
    <3>1. delivered[i] \in StreamSample
      BY <2>1
    <3>2. PICK k \in Read : delivered[i].line = k
      BY <2>1 DEF RowsInv
    <3>3. IsWholeRow(k) /\ delivered[i].values = consumed[k].text
          /\ Len(delivered[i].channels) = WidthAt(k)
      BY <2>1, <3>2 DEF RowsInv
    <3>4. Len(delivered[i].values) = Len(delivered[i].channels)
      BY <3>3 DEF IsWholeRow
    <3> QED
      BY <2>1, <3>1, <3>4 DEF StreamSample
  <2>3. values = FlattenSeq(cells)
    BY DEF RowsInv
  <2>4. cells \in Seq(Seq(Number)) /\ Len(cells) = rows /\ \A i \in 1..rows : cells[i] = delivered[i].values
    BY <2>1, <2>2
  <2> HIDE DEF cells, w
  <2>5. RowMajor(cells, w)
    BY <2>1, <2>2, <2>4, FlattenRows
  <2>6. CASE row < rows /\ column < w
    <3>1. values[row * w + column + 1] = cells[row + 1][column + 1]
      BY <2>1, <2>3, <2>4, <2>5, <2>6 DEF RowMajor
    <3>2. row + 1 \in 1..rows
      BY <2>1, <2>6
    <3>3. cells[row + 1] = delivered[row + 1].values /\ Len(delivered[row + 1].values) = w
      BY <2>2, <2>4, <3>2
    <3>4. Value(row, column) = <<values[row * w + column + 1]>>
      BY <2>6 DEF Value, w
    <3> QED
      BY <2>1, <2>6, <3>1, <3>3, <3>4
  <2>7. CASE ~(row < rows /\ column < w)
    <3>1. Value(row, column) = <<>>
      BY <2>7 DEF Value, w
    <3>2. row < rows => row + 1 \in 1..rows
      BY <2>1
    <3>3. ~(row < Len(delivered) /\ column < Len(delivered[row + 1].values))
      BY <2>1, <2>2, <2>7, <3>2
    <3> QED
      BY <3>1, <3>3
  <2> QED
    BY <2>6, <2>7
<1> QED
  BY <1>1, RowsCorrect, TypeCorrect, PTL

-----------------------------------------------------------------------------
(***************************************************************************)
(* The texts kept of a set of lines, as a function of the lines read.      *)
(***************************************************************************)
TextIn(lines, S, k) == IF k \in S THEN <<lines[k].text>> ELSE <<>>

Kept(lines, S) == FlattenSeq([k \in 1..Len(lines) |-> TextIn(lines, S, k)])

(* The parts of a kept text are texts.                                     *)
LEMMA TextInTyped ==
  ASSUME NEW lines \in Seq(Line), NEW S, NEW k \in 1..Len(lines),
         k \in S => lines[k].kind = "text"
  PROVE  TextIn(lines, S, k) \in Seq(Seq(Field))
<1>1. lines[k] \in Line
  OBVIOUS
<1>2. CASE k \in S
  <2>1. lines[k].text \in Seq(Field)
    BY <1>1, <1>2 DEF Line, Text
  <2> QED
    BY <1>2, <2>1 DEF TextIn
<1>3. CASE k \notin S
  <2>1. TextIn(lines, S, k) = <<>>
    BY <1>3 DEF TextIn
  <2> QED
    BY <2>1
<1> QED
  BY <1>2, <1>3

(* One line more: its text is kept after the others, or nothing changes.   *)
LEMMA KeptGrows ==
  ASSUME NEW lines \in Seq(Line), NEW l \in Line, NEW S, NEW U,
         \A k \in 1..Len(lines) : k \in U <=> k \in S,
         \A k \in 1..Len(lines) : k \in S => lines[k].kind = "text",
         Len(lines) + 1 \in U => l.kind = "text"
  PROVE  /\ Kept(lines, S) \in Seq(Seq(Field))
         /\ Kept(Append(lines, l), U) =
              IF Len(lines) + 1 \in U THEN Append(Kept(lines, S), l.text) ELSE Kept(lines, S)
<1> DEFINE n == Len(lines)
           more == Append(lines, l)
           ss == [k \in 1..n |-> TextIn(lines, S, k)]
           tt == [k \in 1..(n + 1) |-> TextIn(more, U, k)]
           T == Seq(Field)
<1>1. n \in Nat /\ Len(more) = n + 1 /\ more \in Seq(Line) /\ more[n + 1] = l
      /\ \A k \in 1..n : more[k] = lines[k]
  OBVIOUS
<1> HIDE DEF n, more
<1>2. \A k \in 1..n : k \in U <=> k \in S
  BY DEF n
<1>3. \A k \in 1..(n + 1) : k \in U => more[k].kind = "text"
  <2> TAKE k \in 1..(n + 1)
  <2>1. k \in 1..n \/ k = n + 1
    BY <1>1
  <2> QED
    BY <1>1, <1>2, <2>1 DEF n
<1>4. \A k \in 1..n : TextIn(lines, S, k) \in Seq(T) /\ TextIn(more, U, k) = TextIn(lines, S, k)
  <2> TAKE k \in 1..n
  <2>1. TextIn(lines, S, k) \in Seq(T)
    BY TextInTyped DEF n
  <2>2. TextIn(more, U, k) = TextIn(lines, S, k)
    BY <1>1, <1>2 DEF TextIn
  <2> QED
    BY <2>1, <2>2
<1>5. \A k \in 1..(n + 1) : TextIn(more, U, k) \in Seq(T)
  BY <1>1, <1>3, TextInTyped
<1> HIDE DEF T
<1>6. ss \in [1..n -> Seq(T)] /\ tt \in [1..(n + 1) -> Seq(T)] /\ \A k \in 1..n : ss[k] = tt[k]
  <2>1. ss \in [1..n -> Seq(T)]
    BY <1>4
  <2>2. tt \in [1..(n + 1) -> Seq(T)]
    BY <1>5
  <2>3. \A k \in 1..n : ss[k] = tt[k]
    BY <1>1, <1>4
  <2> QED
    BY <2>1, <2>2, <2>3
<1>7. tt[n + 1] = TextIn(more, U, n + 1) /\ tt[n + 1] \in Seq(T)
  BY <1>1, <1>5
<1>8. Kept(lines, S) = FlattenSeq(ss) /\ Kept(more, U) = FlattenSeq(tt)
  BY <1>1 DEF Kept, n
<1> HIDE DEF ss, tt
<1>9. ss \in Seq(Seq(T)) /\ tt = Append(ss, tt[n + 1])
  BY <1>1, <1>6, OneMore
<1>10. FlattenSeq(tt) = FlattenSeq(ss) \o tt[n + 1] /\ FlattenSeq(ss) \in Seq(T)
  <2>1. FlattenSeq(Append(ss, tt[n + 1])) = FlattenSeq(ss) \o tt[n + 1]
    BY <1>7, <1>9, FlattenAppend
  <2>2. FlattenSeq(ss) \in Seq(T)
    BY <1>9, FlattenType
  <2> QED
    BY <1>9, <2>1, <2>2
<1>11. CASE n + 1 \in U
  <2>1. tt[n + 1] = <<l.text>>
    BY <1>1, <1>7, <1>11 DEF TextIn
  <2>2. l.text \in T
    BY <1>1, <1>11 DEF n, T, Line, Text
  <2>3. FlattenSeq(ss) \o <<l.text>> = Append(FlattenSeq(ss), l.text)
    BY <1>10, <2>2
  <2> QED
    BY <1>8, <1>10, <1>11, <2>1, <2>3 DEF n, more, T
<1>12. CASE n + 1 \notin U
  <2>1. tt[n + 1] = <<>>
    BY <1>7, <1>12 DEF TextIn
  <2>2. FlattenSeq(ss) \o <<>> = FlattenSeq(ss)
    BY <1>10, ConcatNothing
  <2> QED
    BY <1>8, <1>10, <1>12, <2>1, <2>2 DEF n, more, T
<1> QED
  BY <1>11, <1>12

(***************************************************************************)
(* The lines a section keeps.                                              *)
(***************************************************************************)
Preamble   == {k \in Read : InPreamble(k)}
Stamps     == {k \in Preamble : consumed[k].text \in FileCreated}
NotStamped == IF Stamps = {} THEN Preamble ELSE Preamble \ {Min(Stamps)}
Under(s)   == {k \in Read : Governs(s, k)}
Unknown    == {k \in Read : \E name \in UnknownName : Governs(name, k)}

\* S' when line m is added to S or not.
Gains(S, T, m, now) == T = IF now THEN S \cup {m} ELSE S

(* A text joins the lines of the section the loop is in, and no others.    *)
LEMMA LinesAfter ==
  ASSUME NEW l, Reads(l), NEW m, m = line + 1, section = SectionAt(m)
  PROVE  /\ Gains(Preamble, Preamble', m, l.kind = "text" /\ section = "preamble")
         /\ \A s \in KnownName : Gains(Under(s), Under(s)', m, l.kind = "text" /\ section = s)
         /\ Gains(Unknown, Unknown', m, l.kind = "text" /\ section = "other")
<1>1. Read = 1..line /\ Read' = Read \cup {m} /\ m \notin Read
  BY ConsumedAfter
<1>2. \A k \in Read : /\ InPreamble(k)' = InPreamble(k)
                      /\ \A name : Governs(name, k)' = Governs(name, k)
  BY <1>1, GovernsStable
<1>3. \A k \in {m} : /\ InPreamble(k)' <=> l.kind = "text" /\ section = "preamble"
                     /\ \A s \in KnownName : Governs(s, k)' <=> l.kind = "text" /\ section = s
                     /\ (\E name \in UnknownName : Governs(name, k)') <=>
                          l.kind = "text" /\ section = "other"
  BY GovernsNow
<1>4. Gains(Preamble, Preamble', m, l.kind = "text" /\ section = "preamble")
  BY <1>1, <1>2, <1>3 DEF Preamble, Gains
<1>5. \A s \in KnownName : Gains(Under(s), Under(s)', m, l.kind = "text" /\ section = s)
  <2> TAKE s \in KnownName
  <2> QED
    BY <1>1, <1>2, <1>3 DEF Under, Gains
<1>6. Gains(Unknown, Unknown', m, l.kind = "text" /\ section = "other")
  BY <1>1, <1>2, <1>3 DEF Unknown, Gains
<1> QED
  BY <1>4, <1>5, <1>6

(* They are texts behind the loop.                                         *)
LEMMA LinesAreTexts ==
  /\ Preamble \subseteq Read /\ Stamps \subseteq Preamble /\ NotStamped \subseteq Preamble
  /\ Unknown \subseteq Read
  /\ \A k \in Preamble \cup Unknown : consumed[k].kind = "text"
  /\ \A s : Under(s) \subseteq Read /\ \A k \in Under(s) : consumed[k].kind = "text"
BY DEF Preamble, Stamps, NotStamped, Unknown, Under, InPreamble, Governs, IsText

(* The texts kept of the lines S, when a line is read that joins them or   *)
(* does not.                                                               *)
LEMMA KeptAfter ==
  ASSUME NEW l, Reads(l), NEW m, m = line + 1, NEW S,
         S \subseteq Read, \A k \in S : consumed[k].kind = "text"
  PROVE  /\ Kept(consumed, S) \in Seq(Seq(Field))
         /\ Kept(consumed', S) = Kept(consumed, S)
         /\ l.kind = "text" =>
              Kept(consumed', S \cup {m}) = Append(Kept(consumed, S), l.text)
<1>1. consumed \in Seq(Line) /\ l \in Line /\ consumed' = Append(consumed, l)
      /\ Len(consumed) = line /\ Len(consumed) + 1 = m /\ m \notin Read /\ Read = 1..line
  BY ConsumedAfter DEF Reads
<1>2. m \notin S
  BY <1>1
<1>3. Kept(consumed, S) \in Seq(Seq(Field)) /\ Kept(consumed', S) = Kept(consumed, S)
  BY <1>1, <1>2, KeptGrows
<1>4. ASSUME l.kind = "text"
      PROVE  Kept(consumed', S \cup {m}) = Append(Kept(consumed, S), l.text)
  <2> DEFINE U == S \cup {m}
  <2>1. m \in U /\ \A k \in 1..Len(consumed) : k \in U <=> k \in S
    BY <1>1
  <2> HIDE DEF U
  <2>2. Kept(Append(consumed, l), U) = Append(Kept(consumed, S), l.text)
    BY <1>1, <1>4, <2>1, KeptGrows
  <2> QED
    BY <1>1, <2>2 DEF U
<1> QED
  BY <1>3, <1>4

(* What a line does to the header.                                         *)
Stamping(l) ==
  /\ l.kind = "text" /\ section = "preamble" /\ created = <<>> /\ l.text \in FileCreated
  /\ created' = l.text /\ UNCHANGED sections

Keeping(l) ==
  /\ l.kind = "text" /\ section \in {"preamble", "header", "comments", "other"}
  /\ ~(section = "preamble" /\ created = <<>> /\ l.text \in FileCreated)
  /\ UNCHANGED created
  /\ sections' = [sections EXCEPT ![section] = Append(@, l.text)]

Skipping(l) ==
  /\ UNCHANGED <<created, sections>>
  /\ ~(l.kind = "text" /\ section \in {"preamble", "header", "comments", "other"})

(* A line stamps the header with its creation, is kept under its section, or adds no text. *)
LEMMA StepHeader ==
  ASSUME NEW l \in Lines, Step(l)
  PROVE  Stamping(l) \/ Keeping(l) \/ Skipping(l)
<1>1. CASE OversizedRecord(l) \/ OversizedLine(l) \/ BlankLine(l) \/ NotUtf8Line(l)
  BY <1>1 DEF OversizedRecord, OversizedLine, BlankLine, NotUtf8Line, Skipping
<1>2. CASE DataMarkerWithoutSchema(l) \/ DataMarker(l) \/ OtherMarker(l)
  BY <1>2 DEF DataMarkerWithoutSchema, DataMarker, OtherMarker, Skipping
<1>3. CASE ColumnNamesText(l) \/ ChannelUnitsText(l)
  BY <1>3 DEF ColumnNamesText, ChannelUnitsText, Skipping
<1>4. CASE RecordOverLimit(l) \/ AcceptRecord(l) \/ OmitRecord(l) \/ RejectRecord(l)
  BY <1>4 DEF RecordOverLimit, AcceptRecord, OmitRecord, RejectRecord, Skipping
<1>5. CASE CreatedText(l)
  BY <1>5 DEF CreatedText, Stamping
<1>6. CASE PreambleText(l)
  BY <1>6 DEF PreambleText, PushText, Keeping
<1>7. CASE HeaderText(l)
  BY <1>7 DEF HeaderText, PushText, Keeping
<1> QED
  BY <1>1, <1>2, <1>3, <1>4, <1>5, <1>6, <1>7 DEF Step

-----------------------------------------------------------------------------
(***************************************************************************)
(* The header, told by the lines read.                                     *)
(***************************************************************************)
HeaderInv ==
  /\ created = IF Stamps = {} THEN <<>> ELSE consumed[Min(Stamps)].text
  /\ sections["preamble"] = Kept(consumed, NotStamped)
  /\ \A s \in {"header", "comments"} : sections[s] = Kept(consumed, Under(s))
  /\ sections["other"] = Kept(consumed, Unknown)
  /\ \A s \in {"column names", "channel units", "data"} : sections[s] = <<>>

(* The first creation line stays the first.                                *)
LEMMA StampsAfter ==
  ASSUME NEW l, Reads(l), NEW m, m = line + 1, section = SectionAt(m),
         NEW joins \in BOOLEAN, joins = (l.kind = "text" /\ section = "preamble")
  PROVE  /\ Stamps' = IF joins /\ l.text \in FileCreated THEN Stamps \cup {m} ELSE Stamps
         /\ Stamps # {} => /\ Min(Stamps') = Min(Stamps) /\ Min(Stamps) \in Stamps
                           /\ consumed'[Min(Stamps)] = consumed[Min(Stamps)]
         /\ Stamps = {} /\ joins /\ l.text \in FileCreated => Min(Stamps') = m
         /\ NotStamped' = IF joins /\ ~(Stamps = {} /\ l.text \in FileCreated)
                            THEN NotStamped \cup {m} ELSE NotStamped
<1>1. /\ Read = 1..line /\ m \notin Read /\ \A k \in Read : consumed'[k] = consumed[k] /\ k < m
      /\ consumed'[m] = l /\ m \in Nat
  BY ConsumedAfter DEF Reads
<1>2. Preamble' = IF joins THEN Preamble \cup {m} ELSE Preamble
  BY LinesAfter DEF Gains
<1>3. Preamble \subseteq Read /\ Stamps \subseteq Read
  BY LinesAreTexts
<1>4. Stamps' = IF joins /\ l.text \in FileCreated THEN Stamps \cup {m} ELSE Stamps
  <2>1. Stamps' = {k \in Preamble' : consumed'[k].text \in FileCreated}
    BY DEF Stamps
  <2>2. CASE joins
    BY <1>1, <1>2, <1>3, <2>1, <2>2 DEF Stamps
  <2>3. CASE ~joins
    BY <1>1, <1>2, <1>3, <2>1, <2>3 DEF Stamps
  <2> QED
    BY <2>2, <2>3
<1>5. Stamps \in SUBSET Nat /\ \A x \in Stamps : x < m
  BY <1>1, <1>3
<1>6. Min(Stamps \cup {m}) = IF Stamps = {} THEN m ELSE Min(Stamps)
  BY <1>1, <1>5, MinGrows
<1>7. Stamps # {} => Min(Stamps') = Min(Stamps) /\ Min(Stamps) \in Stamps
  BY <1>4, <1>5, <1>6, MinOfNat
<1>8. Stamps # {} => consumed'[Min(Stamps)] = consumed[Min(Stamps)] /\ Min(Stamps) # m
  BY <1>1, <1>3, <1>7
<1>9. Stamps = {} /\ joins /\ l.text \in FileCreated => Min(Stamps') = m
  BY <1>4, <1>6
<1>10. NotStamped' = IF Stamps' = {} THEN Preamble' ELSE Preamble' \ {Min(Stamps')}
  BY DEF NotStamped
<1>11. CASE Stamps # {}
  <2>1. Stamps' # {} /\ NotStamped' = Preamble' \ {Min(Stamps)} /\ NotStamped = Preamble \ {Min(Stamps)}
    BY <1>4, <1>7, <1>10, <1>11 DEF NotStamped
  <2>2. NotStamped' = IF joins THEN NotStamped \cup {m} ELSE NotStamped
    BY <1>2, <1>8, <1>11, <2>1
  <2> QED
    BY <1>4, <1>7, <1>8, <1>11, <2>2
<1>12. CASE Stamps = {} /\ joins /\ l.text \in FileCreated
  <2>1. Stamps' = {m} /\ Min(Stamps') = m /\ NotStamped = Preamble
    BY <1>4, <1>9, <1>12 DEF NotStamped
  <2>2. NotStamped' = (Preamble \cup {m}) \ {m}
    BY <1>2, <1>10, <1>12, <2>1
  <2>3. NotStamped' = NotStamped
    BY <1>1, <1>3, <2>1, <2>2
  <2> QED
    BY <1>4, <1>9, <1>12, <2>3
<1>13. CASE Stamps = {} /\ ~(joins /\ l.text \in FileCreated)
  <2>1. Stamps' = {} /\ NotStamped' = Preamble' /\ NotStamped = Preamble
    BY <1>4, <1>10, <1>13 DEF NotStamped
  <2> QED
    BY <1>2, <1>4, <1>13, <2>1
<1> QED
  BY <1>11, <1>12, <1>13

(* A creation line is not empty, so `created` tells whether one was read.  *)
LEMMA StampedText ==
  ASSUME HeaderInv, Read \in SUBSET Nat
  PROVE  created = <<>> <=> Stamps = {}
<1>1. Stamps # {} => consumed[Min(Stamps)].text \in FileCreated
  <2>1. Stamps \in SUBSET Nat
    BY LinesAreTexts
  <2>2. Stamps # {} => Min(Stamps) \in Stamps
    BY <2>1, MinOfNat
  <2> QED
    BY <2>2 DEF Stamps
<1>2. <<>> \notin FileCreated
  BY ParserAssumption DEF Text
<1> QED
  BY <1>1, <1>2 DEF HeaderInv

(* Every line keeps HeaderInv. *)
LEMMA HeaderStep ==
  ASSUME TypeOK, HistoryInv, HeaderInv, NEW l \in Lines, Step(l)
  PROVE  HeaderInv'
<1> DEFINE joins == l.kind = "text" /\ section = "preamble"
           stamping == joins /\ Stamps = {} /\ l.text \in FileCreated
<1>1. Reads(l) /\ line \in Nat /\ section = SectionAt(line + 1) /\ Read \in SUBSET Nat
  BY StepReads DEF Reads, HistoryInv, Read
<1>2. PICK m \in Nat : m = line + 1
  BY <1>1
<1>3. /\ Stamps' = IF joins /\ l.text \in FileCreated THEN Stamps \cup {m} ELSE Stamps
      /\ Stamps # {} => /\ Min(Stamps') = Min(Stamps) /\ Min(Stamps) \in Stamps
                        /\ consumed'[Min(Stamps)] = consumed[Min(Stamps)]
      /\ stamping => Min(Stamps') = m
      /\ NotStamped' = IF joins /\ ~(Stamps = {} /\ l.text \in FileCreated)
                         THEN NotStamped \cup {m} ELSE NotStamped
  <2>1. joins \in BOOLEAN /\ section = SectionAt(m)
    BY <1>1, <1>2
  <2> QED
    BY <1>1, <1>2, <2>1, StampsAfter
<1>4. created = <<>> <=> Stamps = {}
  BY <1>1, StampedText
<1>5. Stamping(l) \/ Keeping(l) \/ Skipping(l)
  BY StepHeader
<1>6. Stamping(l) <=> stamping
  BY <1>4, <1>5 DEF Stamping, Keeping, Skipping
<1>7. consumed'[m] = l
  BY <1>1, <1>2, ConsumedAfter
<1>8. created' = IF Stamps' = {} THEN <<>> ELSE consumed'[Min(Stamps')].text
  <2>1. CASE stamping
    <3>1. created' = l.text
      BY <1>6, <2>1 DEF Stamping
    <3>2. Stamps' # {}
      BY <1>3, <2>1
    <3>3. Min(Stamps') = m
      BY <1>3, <2>1
    <3> QED
      BY <1>7, <3>1, <3>2, <3>3
  <2>2. CASE ~stamping
    <3>1. created' = created
      BY <1>5, <1>6, <2>2 DEF Keeping, Skipping
    <3>2. CASE Stamps = {}
      <4>1. Stamps' = {}
        BY <1>3, <2>2, <3>2
      <4> QED
        BY <3>1, <3>2, <4>1 DEF HeaderInv
    <3>3. CASE Stamps # {}
      <4>1. Stamps' # {} /\ Min(Stamps') = Min(Stamps)
            /\ consumed'[Min(Stamps)] = consumed[Min(Stamps)]
        BY <1>3, <3>3
      <4> QED
        BY <3>1, <3>3, <4>1 DEF HeaderInv
    <3> QED
      BY <3>2, <3>3
  <2> QED
    BY <2>1, <2>2
<1>9. \A s \in Section :
        sections'[s] = IF Keeping(l) /\ section = s THEN Append(sections[s], l.text) ELSE sections[s]
  <2>1. sections \in [Section -> Seq(Text)]
    BY DEF TypeOK
  <2> QED
    BY <1>5, <2>1 DEF Stamping, Keeping, Skipping
<1>10. ASSUME NEW s \in Section, NEW S, NEW U, S \subseteq Read,
              \A k \in S : consumed[k].kind = "text",
              U = IF Keeping(l) /\ section = s THEN S \cup {m} ELSE S,
              sections[s] = Kept(consumed, S)
       PROVE  sections'[s] = Kept(consumed', U)
  <2>1. m \notin S /\ (Keeping(l) => l.kind = "text")
    BY <1>1, <1>2, <1>10, ConsumedAfter DEF Keeping
  <2>2. /\ Kept(consumed', S) = Kept(consumed, S)
        /\ l.kind = "text" => Kept(consumed', S \cup {m}) = Append(Kept(consumed, S), l.text)
    BY <1>1, <1>2, <1>10, KeptAfter
  <2>3. CASE Keeping(l) /\ section = s
    BY <1>9, <1>10, <2>1, <2>2, <2>3
  <2>4. CASE ~(Keeping(l) /\ section = s)
    BY <1>9, <1>10, <2>2, <2>4
  <2> QED
    BY <2>3, <2>4
<1>11. sections'["preamble"] = Kept(consumed', NotStamped')
  <2>1. Keeping(l) /\ section = "preamble" <=> joins /\ ~stamping
    BY <1>5, <1>6 DEF Stamping, Keeping, Skipping
  <2>2. NotStamped' = IF Keeping(l) /\ section = "preamble" THEN NotStamped \cup {m} ELSE NotStamped
    BY <1>3, <2>1
  <2>3. NotStamped \subseteq Read /\ \A k \in NotStamped : consumed[k].kind = "text"
    BY LinesAreTexts
  <2>4. sections["preamble"] = Kept(consumed, NotStamped) /\ "preamble" \in Section
    BY DEF HeaderInv, Section
  <2> QED
    BY <1>10, <2>2, <2>3, <2>4
<1>12. /\ \A s \in KnownName : Gains(Under(s), Under(s)', m, l.kind = "text" /\ section = s)
       /\ Gains(Unknown, Unknown', m, l.kind = "text" /\ section = "other")
  <2>1. section = SectionAt(m)
    BY <1>1, <1>2
  <2> QED
    BY <1>1, <1>2, <2>1, LinesAfter
<1>13. ASSUME NEW s \in {"header", "comments"} PROVE sections'[s] = Kept(consumed', Under(s)')
  <2>1. s \in KnownName /\ s \in Section /\ s # "preamble"
    BY <1>13 DEF KnownName, Section
  <2>2. Keeping(l) /\ section = s <=> l.kind = "text" /\ section = s
    BY <1>5, <1>13, <2>1 DEF Stamping, Keeping, Skipping
  <2>3. Under(s)' = IF Keeping(l) /\ section = s THEN Under(s) \cup {m} ELSE Under(s)
    BY <1>12, <2>1, <2>2 DEF Gains
  <2>4. Under(s) \subseteq Read /\ \A k \in Under(s) : consumed[k].kind = "text"
    BY LinesAreTexts
  <2>5. sections[s] = Kept(consumed, Under(s))
    BY <1>13 DEF HeaderInv
  <2> QED
    BY <1>10, <2>1, <2>3, <2>4, <2>5
<1>14. sections'["other"] = Kept(consumed', Unknown')
  <2>1. Keeping(l) /\ section = "other" <=> l.kind = "text" /\ section = "other"
    BY <1>5 DEF Stamping, Keeping, Skipping
  <2>2. Unknown' = IF Keeping(l) /\ section = "other" THEN Unknown \cup {m} ELSE Unknown
    BY <1>12, <2>1 DEF Gains
  <2>3. Unknown \subseteq Read /\ \A k \in Unknown : consumed[k].kind = "text"
    BY LinesAreTexts
  <2>4. sections["other"] = Kept(consumed, Unknown) /\ "other" \in Section
    BY DEF HeaderInv, Section
  <2> QED
    BY <1>10, <2>2, <2>3, <2>4
<1>15. \A s \in {"column names", "channel units", "data"} : sections'[s] = <<>>
  <2> TAKE s \in {"column names", "channel units", "data"}
  <2>1. s \in Section /\ ~(Keeping(l) /\ section = s)
    BY DEF Section, Keeping
  <2> QED
    BY <1>9, <2>1 DEF HeaderInv
<1> QED
  BY <1>8, <1>11, <1>13, <1>14, <1>15 DEF HeaderInv

(* What governs a line does not change when none is read.                  *)
LEMMA GovernsKept ==
  ASSUME UNCHANGED consumed
  PROVE  \A k : /\ InPreamble(k)' = InPreamble(k)
                /\ \A name : Governs(name, k)' = Governs(name, k)
<1>1. \A k : MarkersBefore(k)' = MarkersBefore(k)
  BY DEF MarkersBefore
<1>2. \A k : MarkerAt(k)' = MarkerAt(k) /\ IsText(k)' = IsText(k)
  BY <1>1 DEF MarkerAt, IsText
<1> QED
  BY <1>1, <1>2 DEF InPreamble, Governs

(* A step that reads no line leaves what the file says of its header alone. *)
LEMMA LinesKept ==
  ASSUME UNCHANGED <<line, consumed>>
  PROVE  /\ Preamble' = Preamble /\ Stamps' = Stamps /\ NotStamped' = NotStamped
         /\ Unknown' = Unknown /\ \A s : Under(s)' = Under(s)
<1>1. Preamble' = Preamble
  BY GovernsKept DEF Preamble, Read
<1>2. Stamps' = Stamps
  BY <1>1 DEF Stamps
<1>3. NotStamped' = NotStamped
  BY <1>1, <1>2 DEF NotStamped
<1>4. Unknown' = Unknown
  BY GovernsKept DEF Unknown, Read
<1>5. \A s : Under(s)' = Under(s)
  BY GovernsKept DEF Under, Read
<1> QED
  BY <1>1, <1>2, <1>3, <1>4, <1>5

(* Every step keeps HeaderInv. *)
LEMMA HeaderNext == TypeOK /\ HistoryInv /\ HeaderInv /\ [Next]_vars => HeaderInv'
<1> SUFFICES ASSUME TypeOK, HistoryInv, HeaderInv, [Next]_vars PROVE HeaderInv'
  OBVIOUS
<1>1. CASE \E l \in Lines : Step(l)
  BY <1>1, HeaderStep
<1>2. CASE Returns \/ UNCHANGED vars
  <2>1. UNCHANGED <<line, consumed, created, sections>>
    BY <1>2 DEF Returns, vars
  <2> QED
    BY <2>1, LinesKept DEF HeaderInv
<1> QED
  BY <1>1, <1>2, NextCases

(* HeaderInv holds before the first line. *)
LEMMA HeaderInit == Init => HeaderInv
<1> SUFFICES ASSUME Init PROVE HeaderInv
  OBVIOUS
<1>1. Read = {} /\ consumed = <<>> /\ created = <<>> /\ sections = [s \in Section |-> <<>>]
  BY DEF Init, Read
<1>2. Preamble = {} /\ Stamps = {} /\ NotStamped = {} /\ Unknown = {} /\ \A s : Under(s) = {}
  BY <1>1 DEF Preamble, Stamps, NotStamped, Unknown, Under
<1>3. \A S : Kept(consumed, S) = <<>>
  <2>1. \A S : [k \in 1..Len(consumed) |-> TextIn(consumed, S, k)] = <<>>
    BY <1>1
  <2> QED
    BY <2>1, FlattenEmpty DEF Kept
<1> QED
  BY <1>1, <1>2, <1>3 DEF HeaderInv, Section

(* The texts of a set of lines are those kept of it.                       *)
LEMMA TextsAreKept == Len(consumed) = line => \A S : TextsOf(S) = Kept(consumed, S)
BY DEF TextsOf, Kept, TextIn, Read

(* The header is the non-semantic texts of the file, in source order under *)
(* the section they stood in, with the first creation line of the preamble *)
(* apart: for every order, and every repetition, of the sections.          *)
THEOREM HeaderTextsArePreserved == Spec => []HeaderIsPreserved
<1>1. HistoryInv /\ HeaderInv => HeaderIsPreserved
  <2> SUFFICES ASSUME HistoryInv, HeaderInv PROVE HeaderIsPreserved
    OBVIOUS
  <2>1. \A S : TextsOf(S) = Kept(consumed, S)
    BY TextsAreKept DEF HistoryInv
  <2>2. \A s : {k \in Read : Governs(s, k)} = Under(s)
    BY DEF Under
  <2>3. sections["preamble"] = TextsOf(IF Stamps = {} THEN Preamble ELSE Preamble \ {Min(Stamps)})
    BY <2>1 DEF HeaderInv, NotStamped
  <2>4. \A s \in {"header", "comments"} : sections[s] = TextsOf({k \in Read : Governs(s, k)})
    BY <2>1, <2>2 DEF HeaderInv
  <2>5. sections["other"] = TextsOf(Unknown)
    BY <2>1 DEF HeaderInv
  <2>6. created = IF Stamps = {} THEN <<>> ELSE consumed[Min(Stamps)].text
    BY DEF HeaderInv
  <2>7. \A s \in {"column names", "channel units", "data"} : sections[s] = <<>>
    BY DEF HeaderInv
  <2> QED
    BY <2>3, <2>4, <2>5, <2>6, <2>7 DEF HeaderIsPreserved, Preamble, Stamps, Unknown
<1> QED
  BY <1>1, HeaderInit, HeaderNext, HistoryCorrect, TypeCorrect, PTL DEF Spec

-----------------------------------------------------------------------------
(***************************************************************************)
(* Units.  A channel has no unit or the token of its position; a name and  *)
(* a unit, once a callback saw them, stay.                                 *)
(***************************************************************************)
Settled(old, new) ==
  /\ Len(old) <= Len(new)
  /\ \A c \in 1..Len(old) : /\ new[c].name = old[c].name
                            /\ old[c].unit \in {NoUnit, new[c].unit}

UnitOf(c) == IF c <= Len(units) THEN units[c] ELSE NoUnit

UnitsInv ==
  /\ units = FlattenSeq(Kept(consumed, Under("channel units")))
  /\ \A c \in 1..Len(channels) : channels[c].unit \in {NoUnit, UnitOf(c)}
  /\ result = Ok => \A c \in 1..Len(channels) : channels[c].unit = UnitOf(c)
  /\ \A i \in 1..Len(delivered) : Settled(delivered[i].channels, channels)

(* `apply_units` gives every column the token of its position, and none    *)
(* when there are too few.                                                 *)
LEMMA ApplyUnitsSettles ==
  ASSUME TypeOK, \A c \in 1..Len(channels) : channels[c].unit \in {NoUnit, UnitOf(c)}
  PROVE  /\ Settled(channels, ApplyUnits(channels, units))
         /\ Len(ApplyUnits(channels, units)) = Len(channels)
         /\ \A c \in 1..Len(channels) : ApplyUnits(channels, units)[c].unit = UnitOf(c)
<1> DEFINE A == ApplyUnits(channels, units)
<1>1. channels \in Seq(Channel) /\ units \in Seq(Field)
  BY DEF TypeOK
<1>2. Len(A) = Len(channels)
  BY <1>1, ApplyUnitsType
<1>3. ASSUME NEW c \in 1..Len(channels)
      PROVE  A[c].name = channels[c].name /\ A[c].unit = UnitOf(c)
  <2>1. channels[c] \in Channel /\ c \in DOMAIN channels
    BY <1>1
  <2>2. CASE c <= Len(units)
    <3>1. A[c] = [channels[c] EXCEPT !.unit = units[c]]
      BY ONLY <2>1, <2>2, Zenon DEF A, ApplyUnits
    <3> QED
      BY <2>1, <2>2, <3>1 DEF Channel, UnitOf
  <2>3. CASE ~(c <= Len(units))
    <3>1. A[c] = channels[c]
      BY ONLY <2>1, <2>3, Zenon DEF A, ApplyUnits
    <3> QED
      BY <2>3, <3>1 DEF UnitOf
  <2> QED
    BY <2>2, <2>3
<1>4. Settled(channels, A)
  <2>1. Len(channels) \in Nat
    BY <1>1
  <2> QED
    BY <1>2, <1>3, <2>1 DEF Settled
<1> QED
  BY <1>2, <1>3, <1>4

(* What settled once is settled for good.                                  *)
LEMMA SettledTransitive ==
  ASSUME NEW x, NEW y, NEW z, Len(x) \in Nat, Len(y) \in Nat, Len(z) \in Nat,
         Settled(x, y), Settled(y, z), \A c \in 1..Len(x) : x[c].unit # NoUnit \/ x[c].unit = NoUnit
  PROVE  Settled(x, z)
<1>1. Len(x) <= Len(z) /\ \A c \in 1..Len(x) : c \in 1..Len(y)
  BY DEF Settled
<1> QED
  BY <1>1 DEF Settled

(* What a line does to the schema.                                         *)
LEMMA StepSchema ==
  ASSUME TypeOK, UnitsInv, NEW l \in Lines, Step(l)
  PROVE  /\ result' # Ok
         /\ Settled(channels, channels')
         /\ \A c \in 1..Len(channels') : channels'[c].unit \in {NoUnit, UnitOf(c)}
         /\ units' = IF l.kind = "text" /\ section = "channel units" THEN units \o l.text ELSE units
         /\ \/ delivered' = delivered
            \/ \E x \in StreamSample : /\ delivered' = Append(delivered, x)
                                       /\ x.channels = channels /\ channels' = channels
<1>t. channels \in Seq(Channel) /\ Len(channels) \in Nat /\ Settled(channels, channels)
  BY DEF TypeOK, Settled
<1>u. \A c \in 1..Len(channels) : channels[c].unit \in {NoUnit, UnitOf(c)}
  BY DEF UnitsInv
<1>k. result = Running
  BY DEF Step, OversizedRecord, OversizedLine, BlankLine, NotUtf8Line, DataMarkerWithoutSchema,
         DataMarker, OtherMarker, CreatedText, PreambleText, ColumnNamesText, ChannelUnitsText,
         HeaderText, RecordOverLimit, AcceptRecord, OmitRecord, RejectRecord, ReadLine
<1>o. /\ Running # Ok /\ LineTooLong # Ok /\ \A tag \in FatalTag : Fatal(tag) # Ok
      /\ Ok \notin RowError
  BY DEF Running, Ok, LineTooLong, Fatal, FatalTag, RowError
<1>p. \A kind : PushIssue(kind) => result' # Ok
  BY <1>k, <1>o DEF PushIssue, Return, FatalTag
<1>1. CASE OversizedRecord(l) \/ OversizedLine(l) \/ BlankLine(l) \/ NotUtf8Line(l)
  BY <1>1, <1>t, <1>u, <1>k, <1>o, <1>p
     DEF OversizedRecord, OversizedLine, BlankLine, NotUtf8Line, Return, FatalTag
<1>2. CASE DataMarkerWithoutSchema(l) \/ OtherMarker(l)
  BY <1>2, <1>t, <1>u, <1>k, <1>o DEF DataMarkerWithoutSchema, OtherMarker, Return, FatalTag
<1>3. CASE DataMarker(l)
  <2>1. channels' = ApplyUnits(channels, units) /\ UNCHANGED <<units, delivered, result>>
        /\ l.kind # "text"
    BY <1>3 DEF DataMarker
  <2>2. /\ Settled(channels, channels') /\ Len(channels') = Len(channels)
        /\ \A c \in 1..Len(channels) : channels'[c].unit = UnitOf(c)
    BY <1>u, <2>1, ApplyUnitsSettles
  <2> QED
    BY <1>k, <1>o, <2>1, <2>2
<1>4. CASE ColumnNamesText(l)
  <2> DEFINE added == [i \in DOMAIN l.text |-> [name |-> l.text[i], unit |-> NoUnit]]
  <2>1. l.text \in Seq(Field)
    BY <1>4, LineFacts DEF ColumnNamesText
  <2>2. added \in Seq(Channel) /\ \A c \in 1..Len(added) : added[c].unit = NoUnit
    <3>1. \A i \in 1..Len(l.text) : [name |-> l.text[i], unit |-> NoUnit] \in Channel
      BY <2>1 DEF Channel
    <3> QED
      BY <2>1, <3>1
  <2>3. channels' = channels \o added /\ UNCHANGED <<units, delivered, result>>
        /\ section # "channel units"
    BY <1>4 DEF ColumnNamesText
  <2> HIDE DEF added
  <2>4. /\ Len(channels \o added) = Len(channels) + Len(added)
        /\ \A c \in 1..Len(channels) : (channels \o added)[c] = channels[c]
        /\ \A c \in 1..Len(added) : (channels \o added)[Len(channels) + c] = added[c]
    BY <1>t, <2>2, ConcatFacts
  <2>n. PICK n \in Nat, k \in Nat : n = Len(channels) /\ k = Len(added)
    BY <1>t, <2>2
  <2>c. /\ Len(channels') = n + k
        /\ \A c \in 1..n : channels'[c] = channels[c]
        /\ \A c \in 1..k : channels'[n + c] = added[c]
    BY <2>3, <2>4, <2>n
  <2>5. Settled(channels, channels')
    <3>1. n <= n + k
      BY <2>n
    <3> QED
      BY <2>n, <2>c, <3>1 DEF Settled
  <2>6. \A c \in 1..Len(channels') : channels'[c].unit \in {NoUnit, UnitOf(c)}
    <3> SUFFICES ASSUME NEW c \in 1..(n + k) PROVE channels'[c].unit \in {NoUnit, UnitOf(c)}
      BY <2>c
    <3>1. CASE c <= n
      <4>1. c \in 1..n
        BY <2>n, <3>1
      <4> QED
        BY <1>u, <2>n, <2>c, <4>1
    <3>2. CASE ~(c <= n)
      <4>1. PICK d \in 1..k : n + d = c
        <5>1. c - n \in 1..k /\ n + (c - n) = c
          BY <2>n, <3>2
        <5> QED
          BY <5>1
      <4>2. channels'[c] = added[d]
        BY <2>c, <4>1
      <4> QED
        BY <2>2, <2>n, <4>1, <4>2
    <3> QED
      BY <3>1, <3>2
  <2> QED
    BY <1>k, <1>o, <2>3, <2>5, <2>6
<1>5. CASE ChannelUnitsText(l)
  BY <1>5, <1>t, <1>u, <1>k, <1>o DEF ChannelUnitsText
<1>6. CASE CreatedText(l) \/ PreambleText(l) \/ HeaderText(l)
  BY <1>6, <1>t, <1>u, <1>k, <1>o DEF CreatedText, PreambleText, HeaderText
<1>7. CASE RecordOverLimit(l)
  BY <1>7, <1>t, <1>u, <1>k, <1>o DEF RecordOverLimit, Return, FatalTag
<1>8. CASE OmitRecord(l)
  BY <1>8, <1>t, <1>u, <1>k, <1>o, <1>p DEF OmitRecord
<1>9. CASE RejectRecord(l)
  <2>1. ParsedRow(l.text).error \in RowError
    BY <1>9, LineFacts, ParsedRowType DEF RejectRecord
  <2> QED
    BY <1>9, <1>t, <1>u, <1>o, <2>1 DEF RejectRecord, Return
<1>10. CASE AcceptRecord(l)
  <2> DEFINE x == [row |-> rows, line |-> line', values |-> row_values', channels |-> channels]
  <2>1. l.text \in Seq(Field) /\ ParsedRow(l.text).ok /\ row_values' = ParsedRow(l.text).output
    BY <1>10, LineFacts DEF AcceptRecord
  <2>2. row_values' \in Seq(Number)
    BY <2>1, ParsedRowType
  <2>3. line' \in Nat \ {0}
    BY <1>10, ReadLineType DEF AcceptRecord
  <2>4. x \in StreamSample
    BY <2>2, <2>3 DEF StreamSample, TypeOK
  <2>5. delivered' = Append(delivered, x) /\ UNCHANGED <<channels, units, result>>
        /\ section # "channel units"
    BY <1>10 DEF AcceptRecord
  <2>6. x.channels = channels
    OBVIOUS
  <2> HIDE DEF x
  <2> QED
    BY <1>t, <1>u, <1>k, <1>o, <2>4, <2>5, <2>6
<1> QED
  BY <1>1, <1>2, <1>3, <1>4, <1>5, <1>6, <1>7, <1>8, <1>9, <1>10 DEF Step

(* More unit tokens leave the earlier ones in their places.                *)
LEMMA UnitsGrow ==
  ASSUME TypeOK, NEW toks \in Seq(Field), units' = units \o toks \/ units' = units
  PROVE  \A c \in Nat \ {0} : UnitOf(c) \in {NoUnit, UnitOf(c)'}
<1> TAKE c \in Nat \ {0}
<1>1. CASE units' = units
  BY <1>1 DEF UnitOf
<1>2. CASE units' = units \o toks
  <2>1. units \in Seq(Field)
    BY DEF TypeOK
  <2>2. Len(units') = Len(units) + Len(toks) /\ \A d \in 1..Len(units) : units'[d] = units[d]
    BY <1>2, <2>1, ConcatFacts
  <2>3. Len(units) \in Nat /\ Len(toks) \in Nat
    BY <2>1
  <2>4. CASE c <= Len(units)
    <3>1. c \in 1..Len(units) /\ c <= Len(units')
      BY <2>2, <2>3, <2>4
    <3> QED
      BY <2>2, <2>4, <3>1 DEF UnitOf
  <2>5. CASE ~(c <= Len(units))
    BY <2>5 DEF UnitOf
  <2> QED
    BY <2>4, <2>5
<1> QED
  BY <1>1, <1>2

(* Every line keeps UnitsInv. *)
LEMMA UnitsStep ==
  ASSUME TypeOK, TypeOK', HistoryInv, UnitsInv, NEW l \in Lines, Step(l)
  PROVE  UnitsInv'
<1>1. Reads(l) /\ line \in Nat /\ section = SectionAt(line + 1)
  BY StepReads DEF Reads, HistoryInv
<1>2. PICK m \in Nat : m = line + 1
  BY <1>1
<1>3. /\ result' # Ok
      /\ Settled(channels, channels')
      /\ \A c \in 1..Len(channels') : channels'[c].unit \in {NoUnit, UnitOf(c)}
      /\ units' = IF l.kind = "text" /\ section = "channel units" THEN units \o l.text ELSE units
      /\ \/ delivered' = delivered
         \/ \E x \in StreamSample : /\ delivered' = Append(delivered, x)
                                    /\ x.channels = channels /\ channels' = channels
  BY StepSchema
<1> DEFINE U == Under("channel units")
           now == l.kind = "text" /\ section = "channel units"
<1>4. l.kind = "text" => l.text \in Seq(Field)
  BY LineFacts
<1>5. U' = IF now THEN U \cup {m} ELSE U
  <2>1. section = SectionAt(m) /\ "channel units" \in KnownName
    BY <1>1, <1>2 DEF KnownName, Section
  <2> QED
    BY <1>1, <1>2, <2>1, LinesAfter DEF Gains
<1>6. /\ Kept(consumed, U) \in Seq(Seq(Field)) /\ Kept(consumed', U) = Kept(consumed, U)
      /\ l.kind = "text" => Kept(consumed', U \cup {m}) = Append(Kept(consumed, U), l.text)
  <2>1. U \subseteq Read /\ \A k \in U : consumed[k].kind = "text"
    BY LinesAreTexts
  <2> HIDE DEF U
  <2> QED
    BY <1>1, <1>2, <2>1, KeptAfter
<1>7. units' = FlattenSeq(Kept(consumed', U'))
  <2>1. units = FlattenSeq(Kept(consumed, U))
    BY DEF UnitsInv
  <2>2. CASE now
    <3>1. FlattenSeq(Append(Kept(consumed, U), l.text)) = FlattenSeq(Kept(consumed, U)) \o l.text
      BY <1>4, <1>6, <2>2, FlattenAppend
    <3>2. U' = U \cup {m} /\ units' = units \o l.text
      BY <1>3, <1>5, <2>2
    <3> HIDE DEF U
    <3>3. Kept(consumed', U') = Append(Kept(consumed, U), l.text)
      BY <1>6, <2>2, <3>2
    <3> QED
      BY <2>1, <3>1, <3>2, <3>3
  <2>3. CASE ~now
    <3>1. U' = U /\ units' = units
      BY <1>3, <1>5, <2>3
    <3> HIDE DEF U
    <3> QED
      BY <1>6, <2>1, <3>1
  <2> QED
    BY <2>2, <2>3
<1>8. \A c \in 1..Len(channels') : channels'[c].unit \in {NoUnit, UnitOf(c)'}
  <2>1. \A c \in Nat \ {0} : UnitOf(c) \in {NoUnit, UnitOf(c)'}
    <3>1. CASE now
      BY <1>3, <1>4, <3>1, UnitsGrow
    <3>2. CASE ~now
      <4>1. units' = units
        BY <1>3, <3>2
      <4> QED
        BY <4>1 DEF UnitOf
    <3> QED
      BY <3>1, <3>2
  <2>2. \A c \in 1..Len(channels') : c \in Nat \ {0}
    OBVIOUS
  <2> QED
    BY <1>3, <2>1, <2>2
<1>9. \A i \in 1..Len(delivered') : Settled(delivered'[i].channels, channels')
  <2>1. /\ Len(channels) \in Nat /\ Len(channels') \in Nat
        /\ delivered \in Seq(StreamSample)
        /\ \A x \in StreamSample : Len(x.channels) \in Nat
    <3>1. channels \in Seq(Channel) /\ channels' \in Seq(Channel)
          /\ delivered \in Seq(StreamSample)
      BY DEF TypeOK
    <3>2. \A x \in StreamSample : Len(x.channels) \in Nat
      BY DEF StreamSample
    <3> QED
      BY <3>1, <3>2
  <2>2. \A i \in 1..Len(delivered) : Settled(delivered[i].channels, channels')
    <3> TAKE i \in 1..Len(delivered)
    <3>0. delivered[i] \in StreamSample
      BY <2>1
    <3>1. Settled(delivered[i].channels, channels) /\ delivered[i] \in StreamSample
      BY <3>0 DEF UnitsInv
    <3>2. Len(delivered[i].channels) \in Nat
      BY <2>1, <3>1
    <3> QED
      BY <1>3, <2>1, <3>1, <3>2, SettledTransitive
  <2>3. CASE delivered' = delivered
    BY <2>2, <2>3
  <2>4. CASE \E x \in StreamSample : /\ delivered' = Append(delivered, x)
                                     /\ x.channels = channels /\ channels' = channels
    <3>1. PICK x \in StreamSample : delivered' = Append(delivered, x) /\ x.channels = channels
      BY <2>4
    <3>2. /\ Len(delivered') = Len(delivered) + 1 /\ delivered'[Len(delivered) + 1] = x
          /\ \A i \in 1..Len(delivered) : delivered'[i] = delivered[i]
      BY <2>1, <3>1
    <3>3. \A i \in 1..Len(delivered') : i \in 1..Len(delivered) \/ i = Len(delivered) + 1
      BY <2>1, <3>2
    <3> QED
      BY <1>3, <2>2, <3>1, <3>2, <3>3
  <2> QED
    BY <1>3, <2>3, <2>4
<1> QED
  BY <1>3, <1>7, <1>8, <1>9 DEF UnitsInv

(* The end of the input attaches the units.                                *)
LEMMA UnitsEnd ==
  ASSUME TypeOK, HistoryInv, UnitsInv, Returns \/ UNCHANGED vars, [Next]_vars
  PROVE  UnitsInv'
<1>1. UNCHANGED <<line, consumed, units, delivered>>
  BY DEF Returns, vars
<1>2. Under("channel units")' = Under("channel units") /\ \A c : UnitOf(c)' = UnitOf(c)
  BY <1>1, LinesKept DEF UnitOf
<1>3. /\ units = FlattenSeq(Kept(consumed, Under("channel units")))
      /\ \A c \in 1..Len(channels) : channels[c].unit \in {NoUnit, UnitOf(c)}
      /\ \A i \in 1..Len(delivered) : Settled(delivered[i].channels, channels)
      /\ result = Ok => \A c \in 1..Len(channels) : channels[c].unit = UnitOf(c)
  BY DEF UnitsInv
<1>4. CASE UNCHANGED <<channels, result>>
  BY <1>1, <1>2, <1>3, <1>4 DEF UnitsInv
<1>5. CASE channels' = ApplyUnits(channels, units)
  <2>1. /\ Settled(channels, channels') /\ Len(channels') = Len(channels)
        /\ \A c \in 1..Len(channels) : channels'[c].unit = UnitOf(c)
    BY <1>3, <1>5, ApplyUnitsSettles
  <2>2. Len(channels) \in Nat /\ \A i \in 1..Len(delivered) : Len(delivered[i].channels) \in Nat
    <3>1. delivered \in Seq(StreamSample) /\ \A x \in StreamSample : Len(x.channels) \in Nat
      BY DEF TypeOK, StreamSample
    <3> QED
      BY <3>1 DEF TypeOK
  <2>3. \A i \in 1..Len(delivered) : Settled(delivered[i].channels, channels')
    BY <1>3, <2>1, <2>2, SettledTransitive
  <2> QED
    BY <1>1, <1>2, <1>3, <2>1, <2>3 DEF UnitsInv
<1>6. CASE channels' = channels /\ result' # Ok
  BY <1>1, <1>2, <1>3, <1>6 DEF UnitsInv
<1>7. \/ UNCHANGED <<channels, result>>
      \/ channels' = ApplyUnits(channels, units)
      \/ channels' = channels /\ result' # Ok
  <2>1. CASE UNCHANGED vars
    BY <2>1 DEF vars
  <2>2. CASE EndWithoutData \/ ReadFails
    BY <2>2 DEF EndWithoutData, ReadFails, Return, Fatal, Ok
  <2>3. CASE EndOfInput
    BY <2>3 DEF EndOfInput
  <2>4. CASE \E l \in Lines : Step(l)
    <3>1. line' = line + 1 /\ line \in Nat
      BY <2>4, StepReads DEF Reads
    <3> QED
      BY <1>1, <3>1
  <2> QED
    BY <2>1, <2>2, <2>3, <2>4 DEF Next, Progress
<1> QED
  BY <1>4, <1>5, <1>6, <1>7

(* Every step keeps UnitsInv. *)
LEMMA UnitsNext == TypeOK /\ TypeOK' /\ HistoryInv /\ UnitsInv /\ [Next]_vars => UnitsInv'
BY UnitsStep, UnitsEnd, NextCases

(* A finished parse gives the i-th column the i-th unit token, wherever    *)
(* the two sections stood, and what a callback saw of a column is never    *)
(* contradicted: for every order and number of sections.                   *)
THEOREM UnitsAreSettled == Spec => []UnitsSettle
<1>1. Init => UnitsInv
  <2> SUFFICES ASSUME Init PROVE UnitsInv
    OBVIOUS
  <2>1. Read = {} /\ consumed = <<>> /\ units = <<>> /\ channels = <<>> /\ delivered = <<>>
        /\ result # Ok
    BY DEF Init, Read, Running, Ok
  <2>2. [k \in 1..Len(consumed) |-> TextIn(consumed, Under("channel units"), k)] = <<>>
    BY <2>1
  <2>3. Kept(consumed, Under("channel units")) = <<>>
    BY <2>2, FlattenEmpty DEF Kept
  <2>4. 1..Len(channels) = {} /\ 1..Len(delivered) = {}
    BY <2>1
  <2> QED
    BY <2>1, <2>3, <2>4, FlattenEmpty, Zenon DEF UnitsInv
<1>2. TypeOK /\ HistoryInv /\ UnitsInv => UnitsSettle
  <2> SUFFICES ASSUME TypeOK, HistoryInv, UnitsInv PROVE UnitsSettle
    OBVIOUS
  <2>1. \A S : TextsOf(S) = Kept(consumed, S)
    BY TextsAreKept DEF HistoryInv
  <2>2. units = FlattenSeq(TextsOf({k \in Read : Governs("channel units", k)}))
    BY <2>1 DEF UnitsInv, Under
  <2>3. result = Ok => \A i \in DOMAIN channels :
          channels[i].unit = IF i <= Len(units) THEN units[i] ELSE NoUnit
    <3>1. DOMAIN channels = 1..Len(channels)
      BY DEF TypeOK
    <3> QED
      BY <3>1, Zenon DEF UnitsInv, UnitOf
  <2>4. ASSUME NEW i \in DOMAIN delivered, NEW c \in DOMAIN delivered[i].channels
        PROVE  /\ delivered[i].channels[c].name = channels[c].name
               /\ delivered[i].channels[c].unit \in {NoUnit, channels[c].unit}
    <3>1. i \in 1..Len(delivered) /\ delivered[i] \in StreamSample
      BY DEF TypeOK
    <3>2. c \in 1..Len(delivered[i].channels)
      BY <3>1 DEF StreamSample
    <3>3. Settled(delivered[i].channels, channels)
      BY <3>1 DEF UnitsInv
    <3> QED
      BY <3>2, <3>3 DEF Settled
  <2> QED
    BY <2>2, <2>3, <2>4 DEF UnitsSettle
<1> QED
  BY <1>1, <1>2, UnitsNext, HistoryCorrect, TypeCorrect, PTL DEF Spec
=============================================================================
