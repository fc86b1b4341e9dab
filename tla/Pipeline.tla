------------------------------ MODULE Pipeline -------------------------------
(***************************************************************************)
(* `parse_bufread_inner` from bytes to rows: LineReader below, VboParser   *)
(* above.  The parser runs on the reader's lines, the reader runs only     *)
(* while the parser asks for one, and an error of the reader is the        *)
(* parser's.                                                               *)
(*                                                                         *)
(* A byte is a line end, a space, a byte that is not UTF-8, or stands for  *)
(* a whole whitespace-delimited token: a field, or a bracketed name.       *)
(***************************************************************************)
EXTENDS LineReader, SequencesExt, FiniteSets, FiniteSetsExt

CONSTANTS
  Number, Word, FileCreated, UnknownName, NoUnit, MaxRows, MaxIssues, MaxLines,
  Space,       \* the whitespace bytes other than CR and LF
  NotUtf8      \* the bytes that make a line invalid UTF-8

VARIABLES
  recover, section, line, created, sections, channels, units, data_seen,
  rows, row_values, values, issues, result, consumed, delivered

P == INSTANCE VboParser WITH Lines <- {}

Token == Number \cup Word

\* A bracketed name may also be a field; no two tokens are adjacent.
ASSUME PipelineAssumption ==
  /\ Number \cap Word = {}
  /\ P!MarkerName \subseteq Word
  /\ FileCreated \subseteq {t \in P!Text : Len(t) > 1 /\ t[1] \in Word}
  /\ NoUnit \notin P!Field
  /\ UnknownName # {} /\ UnknownName \cap P!KnownName = {}
  /\ MaxRows \in Nat /\ MaxIssues \in Nat /\ MaxLines \in Nat
  /\ Other = Token \cup Space \cup NotUtf8
  /\ \A file \in Inputs : \A i \in 1..(Len(file) - 1) :
       file[i] \notin Token \/ file[i + 1] \notin Token

parser == <<recover, section, line, created, sections, channels, units, data_seen,
            rows, row_values, values, issues, result, consumed, delivered>>
pipeline == <<vars, parser>>

PipelineInit == Init /\ P!Init

Whitespace == Space \cup {CR}
Fields(bytes) ==
  FlattenSeq([i \in DOMAIN bytes |-> IF bytes[i] \in Whitespace THEN <<>> ELSE <<bytes[i]>>])

\* `from_marker` looks at the two ends of the trimmed text.
IsMarker(fields) == fields[1] \in P!MarkerName /\ Last(fields) \in P!MarkerName
NameIn(fields) == IF Len(fields) = 1 THEN fields[1] ELSE CHOOSE u \in UnknownName : TRUE

\* The order of the tests in the loop body.
Classify(obtained) ==
  IF obtained.oversized THEN [kind |-> "oversized"]
  ELSE LET fields == Fields(obtained.bytes) IN
    IF fields = <<>> THEN [kind |-> "blank"]
    ELSE IF \E i \in DOMAIN fields : fields[i] \in NotUtf8 THEN [kind |-> "notUtf8"]
    ELSE IF IsMarker(fields) THEN [kind |-> "marker", name |-> NameIn(fields)]
    ELSE [kind |-> "text", text |-> fields]

-----------------------------------------------------------------------------
ReadChunk ==
  /\ result = P!Running
  /\ \E n \in 1..(Len(input) - pos) : Fill(n)
  /\ UNCHANGED parser

\* The last line lacks its newline.
EndOfLastLine ==
  /\ result = P!Running
  /\ saw_line
  /\ EndOfInput
  /\ UNCHANGED parser

ParseLine ==
  /\ TakeLine
  /\ P!Step(Classify(Last(lines')))

\* Mutant: the end of the input ends the parse whatever is in the buffer.
EndDroppingLastLine ==
  /\ phase = "reading" /\ pos = Len(input)
  /\ phase' = "done"
  /\ UNCHANGED <<input, limit, pos, output, saw_line, too_long, start, lines>>
  /\ P!EndWithoutData \/ P!EndOfInput

EndOfFile ==
  /\ ~saw_line
  /\ EndOfInput
  /\ P!EndWithoutData \/ P!EndOfInput

\* Mutant: what was read of the line is parsed when the reader fails.
ParsePartialLine ==
  /\ ReadError
  /\ \/ P!ReadFails
     \/ output # <<>> /\ P!Step(Classify(Content(output)))

ReaderFails == ReadError /\ P!ReadFails

ParseProgress == ReadChunk \/ EndOfLastLine \/ ParseLine \/ EndOfFile

PipelineNext == ParseProgress \/ ReaderFails

PipelineSpec == PipelineInit /\ [][PipelineNext]_pipeline

\* One thread runs both loops; nothing makes the reader fail.
FairPipeline == PipelineSpec /\ WF_pipeline(ParseProgress)

-----------------------------------------------------------------------------
(***************************************************************************)
(* The file as it is on disk, with no reader and no parser.                *)
(***************************************************************************)

NewlinesIn(n) == Cardinality({i \in 1..n : input[i] = LF})

FileLines ==
  NewlinesIn(Len(input)) + (IF input # <<>> /\ Last(input) # LF THEN 1 ELSE 0)

PlacesOf(k) == {i \in DOMAIN input : input[i] # LF /\ NewlinesIn(i) = k - 1}

LineBytes(k) ==
  IF PlacesOf(k) = {} THEN <<>> ELSE SubSeq(input, Min(PlacesOf(k)), Max(PlacesOf(k)))

IsOverlong(k) == Len(StripCR(LineBytes(k))) > limit

\* The first n bytes are the first k lines of the file, and nothing else.
AreLines(n, k) ==
  \/ NewlinesIn(n) = k /\ (n = 0 \/ input[n] = LF)
  \/ n = Len(input) /\ k = FileLines

(* Every row the visitor got is the fields of the file's line its number   *)
(* names, every diagnostic names a line of the file and calls it too long  *)
(* exactly when its content is: blank lines, CRLF, a missing final newline *)
(* and the chunks the reader handed out shift nothing.                     *)
ReportsMatchFile ==
  /\ \A i \in DOMAIN delivered :
       /\ delivered[i].values = Fields(LineBytes(delivered[i].line))
       /\ ~IsOverlong(delivered[i].line)
  /\ \A i \in DOMAIN issues :
       issues[i].kind = P!LineTooLong <=> IsOverlong(issues[i].line)
  /\ result = P!LineTooLong => IsOverlong(line)

(* The parser has seen whole lines only, exactly those that end where the  *)
(* reader's current line starts: when the reader fails inside a line, the  *)
(* part that was read becomes neither a row nor a diagnostic.              *)
OnlyWholeLinesAreParsed == AreLines(start, line)

(* parse_bufread leaves its caller's reader just behind the line it        *)
(* stopped at: a parse that returned, other than for an error of the       *)
(* reader, consumed no byte of a later line.                               *)
StopsBehindItsLastLine ==
  result \notin {P!Running, P!Fatal("Io")} => pos = start /\ AreLines(pos, line)

(* Ok, or MissingData, is an answer about the whole file: no line of it,   *)
(* an unterminated last one included, is left unread.                      *)
AnswersReadWholeFile ==
  result \in {P!Ok, P!Fatal("MissingData")} => pos = Len(input) /\ line = FileLines

\* The steps that the two loops have left, at most.
StepsLeft ==
  3 * (Len(input) - pos) + CASE phase = "reading" /\ saw_line -> 3
                             [] phase = "returned" -> 2
                             [] phase = "reading" /\ ~saw_line -> 1
                             [] OTHER -> 0

(* No iteration of either loop spins: each consumes bytes, or ends a line  *)
(* that had some, or hands it over, so that a file of n bytes is parsed in *)
(* at most 3 * n + 1 of them, whatever the lines and the chunks are.       *)
EveryStepProgresses ==
  [][ParseProgress => StepsLeft' \in 0..(StepsLeft - 1)]_pipeline

(* A parse of a finite file returns, with the reader's loop inside the     *)
(* parser's.                                                               *)
ParseReturns == <>(result # P!Running)
=============================================================================
