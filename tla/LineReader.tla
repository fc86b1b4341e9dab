----------------------------- MODULE LineReader ------------------------------
(***************************************************************************)
(* `read_bounded_line` (src/parser.rs) and the head of the loop that calls *)
(* it: the byte level of the parser.  `BufRead::fill_buf` hands out the    *)
(* rest of the input in chunks of any size, so a newline, and the CR       *)
(* before it, may fall on either side of a chunk boundary.                 *)
(*                                                                         *)
(* One reading action is one iteration of the function's `loop`.  The      *)
(* lines the caller obtains are recorded to the end of the input; which of *)
(* them stop a parse is VboParser's matter.                                *)
(***************************************************************************)
EXTENDS Integers, Sequences

CONSTANTS
  Other,       \* the bytes that are neither of the two below
  Limits,      \* values of ParseOptions::max_line_bytes
  Inputs       \* the inputs, as byte sequences

CR == "CR"
LF == "LF"
Byte == Other \cup {CR, LF}

ASSUME ReaderAssumption ==
  /\ Other \cap {CR, LF} = {}
  /\ Limits \subseteq Nat
  /\ Inputs \subseteq Seq(Byte)

VARIABLES
  input,      \* the bytes behind the reader
  limit,      \* max_line_bytes
  pos,        \* bytes consumed
  output,     \* the caller's line buffer
  saw_line,
  too_long,
  phase,      \* "reading" in the loop, "returned" to the caller, "done", "failed"
  start,      \* history: bytes consumed when the line was begun
  lines       \* history: the lines the caller obtained

vars == <<input, limit, pos, output, saw_line, too_long, phase, start, lines>>

Oversized == [oversized |-> TRUE]
Content(bytes) == [oversized |-> FALSE, bytes |-> bytes]
Obtained == {Oversized} \cup [oversized : {FALSE}, bytes : Seq(Byte)]

Init ==
  /\ input \in Inputs
  /\ limit \in Limits
  /\ pos = 0
  /\ output = <<>>
  /\ saw_line = FALSE
  /\ too_long = FALSE
  /\ phase = "reading"
  /\ start = 0
  /\ lines = <<>>

\* Mutant: no extra byte, so a CR at the limit counts as content.
TightStorage == limit

StorageLimit == limit + 1

\* Mutant: everything before the newline is kept.
RetainedAll(before) == before

\* How many of the bytes before the newline still fit.
Retained(before) ==
  IF before <= StorageLimit - Len(output) THEN before ELSE StorageLimit - Len(output)

Keep(buffer, before) ==
  /\ output' = output \o SubSeq(buffer, 1, Retained(before))
  /\ saw_line' = (saw_line \/ before > 0)
  /\ too_long' = (too_long \/ Retained(before) < before)

\* `fill_buf` returns any non-empty prefix of the rest.
Chunk(n) == SubSeq(input, pos + 1, pos + n)

IsFirstNewline(buffer, i) == buffer[i] = LF /\ \A j \in 1..(i - 1) : buffer[j] # LF

\* Mutant: the whole chunk is consumed with the line.
FillWholeChunk(n) ==
  /\ phase = "reading"
  /\ \E i \in 1..n :
       /\ IsFirstNewline(Chunk(n), i)
       /\ Keep(Chunk(n), i - 1)
       /\ pos' = pos + n
  /\ phase' = "returned"
  /\ UNCHANGED <<input, limit, start, lines>>

FillToNewline(n) ==
  /\ phase = "reading"
  /\ \E i \in 1..n :
       /\ IsFirstNewline(Chunk(n), i)
       /\ Keep(Chunk(n), i - 1)
       /\ pos' = pos + i
  /\ phase' = "returned"
  /\ UNCHANGED <<input, limit, start, lines>>

FillWithoutNewline(n) ==
  /\ phase = "reading"
  /\ \A i \in 1..n : Chunk(n)[i] # LF
  /\ Keep(Chunk(n), n)
  /\ pos' = pos + n
  /\ UNCHANGED <<input, limit, phase, start, lines>>

\* Mutant: an empty buffer with nothing read is tried again.
RetryEndOfInput ==
  /\ phase = "reading" /\ pos = Len(input)
  /\ saw_line
  /\ phase' = "returned"
  /\ UNCHANGED <<input, limit, pos, output, saw_line, too_long, start, lines>>

\* An empty buffer ends the last line, or the input.
EndOfInput ==
  /\ phase = "reading" /\ pos = Len(input)
  /\ phase' = IF saw_line THEN "returned" ELSE "done"
  /\ UNCHANGED <<input, limit, pos, output, saw_line, too_long, start, lines>>

\* `fill_buf()?`
ReadError ==
  /\ phase = "reading"
  /\ phase' = "failed"
  /\ UNCHANGED <<input, limit, pos, output, saw_line, too_long, start, lines>>

StripCR(raw) ==
  IF raw # <<>> /\ raw[Len(raw)] = CR THEN SubSeq(raw, 1, Len(raw) - 1) ELSE raw

\* Mutant: the next call begins as if it had read something already.
TakeLineAndResume ==
  /\ phase = "returned"
  /\ LET raw == StripCR(output) IN
       lines' = Append(lines, IF too_long \/ Len(raw) > limit THEN Oversized ELSE Content(raw))
  /\ output' = <<>>
  /\ too_long' = FALSE
  /\ start' = pos
  /\ phase' = "reading"
  /\ UNCHANGED <<input, limit, pos, saw_line>>

\* The caller pops the CR, tests the length, and calls again.
TakeLine ==
  /\ phase = "returned"
  /\ LET raw == StripCR(output) IN
       lines' = Append(lines, IF too_long \/ Len(raw) > limit THEN Oversized ELSE Content(raw))
  /\ output' = <<>>
  /\ saw_line' = FALSE
  /\ too_long' = FALSE
  /\ start' = pos
  /\ phase' = "reading"
  /\ UNCHANGED <<input, limit, pos>>

Fill(n) == FillToNewline(n) \/ FillWithoutNewline(n)

Progress ==
  \/ \E n \in 1..(Len(input) - pos) : Fill(n)
  \/ EndOfInput
  \/ TakeLine

Next == Progress \/ ReadError

Spec == Init /\ [][Next]_vars

-----------------------------------------------------------------------------
(* The reader never consumes more than there is, and what it keeps and     *)
(* hands out are bytes of the input.                                       *)
TypeOK ==
  /\ input \in Seq(Byte)
  /\ limit \in Nat
  /\ start \in 0..pos /\ pos \in 0..Len(input)
  /\ output \in Seq(Byte)
  /\ saw_line \in BOOLEAN /\ too_long \in BOOLEAN
  /\ phase \in {"reading", "returned", "done", "failed"}
  /\ lines \in Seq(Obtained)

(* However long a line is, the buffer holds its first bytes and never more *)
(* than the limit and one byte; `too_long` tells exactly that some did not *)
(* fit.                                                                    *)
BufferIsBounded ==
  /\ Len(output) <= limit + 1
  /\ \A i \in DOMAIN output : output[i] = input[start + i]
  /\ too_long => Len(output) = limit + 1 /\ pos > start + Len(output)

(* Chunk boundaries are invisible: whatever the chunks, the caller obtains *)
(* the lines of the unbuffered specification, CRLF and limit included.     *)
Physical == INSTANCE PhysicalLines WITH
              next <- start,
              status <- IF phase \in {"reading", "returned"} THEN "open" ELSE phase

ReadsPhysicalLines == Physical!Spec
=============================================================================
