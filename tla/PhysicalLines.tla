---------------------------- MODULE PhysicalLines ----------------------------
(***************************************************************************)
(* What reading an input line by line promises, with no buffers: the next  *)
(* line is everything up to the next newline or the end of the input, a    *)
(* carriage return before it is not content, and a line is oversized       *)
(* exactly when its content exceeds the limit.                             *)
(***************************************************************************)
EXTENDS Integers, Sequences

CONSTANT
  Other        \* the bytes that are neither of the two below

CR == "CR"
LF == "LF"
Byte == Other \cup {CR, LF}

VARIABLES input, limit, next, lines, status

vars == <<input, limit, next, lines, status>>

Oversized == [oversized |-> TRUE]
Content(bytes) == [oversized |-> FALSE, bytes |-> bytes]

StripCR(bytes) ==
  IF bytes # <<>> /\ bytes[Len(bytes)] = CR THEN SubSeq(bytes, 1, Len(bytes) - 1) ELSE bytes

Classified(bytes) ==
  IF Len(StripCR(bytes)) > limit THEN Oversized ELSE Content(StripCR(bytes))

\* A line ends before the newline at `stop`, or at the end of the input.
IsLineEnd(stop) ==
  /\ stop \in (next + 1)..(Len(input) + 1)
  /\ stop <= Len(input) => input[stop] = LF
  /\ \A i \in (next + 1)..(stop - 1) : input[i] # LF

Init ==
  /\ input \in Seq(Byte)
  /\ limit \in Nat
  /\ next = 0
  /\ lines = <<>>
  /\ status = "open"

Deliver ==
  /\ status = "open" /\ next < Len(input)
  /\ \E stop \in (next + 1)..(Len(input) + 1) :
       /\ IsLineEnd(stop)
       /\ lines' = Append(lines, Classified(SubSeq(input, next + 1, stop - 1)))
       /\ next' = IF stop <= Len(input) THEN stop ELSE Len(input)
  /\ UNCHANGED <<input, limit, status>>

End ==
  /\ status = "open" /\ next = Len(input)
  /\ status' = "done"
  /\ UNCHANGED <<input, limit, next, lines>>

Fail ==
  /\ status = "open"
  /\ status' = "failed"
  /\ UNCHANGED <<input, limit, next, lines>>

Next == Deliver \/ End \/ Fail

Spec == Init /\ [][Next]_vars
=============================================================================
