---------------------------- MODULE PipelineProofs ----------------------------
(***************************************************************************)
(* For every input, every limit and every way the reader cuts the input    *)
(* into chunks, LineReader delivers the lines of PhysicalLines; the parser *)
(* on top of it is a VboParser on those lines, and what it reports is true *)
(* of the file.                                                            *)
(***************************************************************************)
EXTENDS Pipeline, BasicLemmas

(* The buffer after m bytes of the line: its first limit + 1 bytes.        *)
Holds(m) ==
  /\ \A i \in 1..m : input[start + i] # LF
  /\ Len(output) = IF m <= limit + 1 THEN m ELSE limit + 1
  /\ \A i \in 1..Len(output) : output[i] = input[start + i]
  /\ too_long <=> m > limit + 1
  /\ saw_line <=> m > 0

\* The line ended after m bytes, at a newline or at the end of the input.
EndedAt(m) ==
  \/ pos = start + m + 1 /\ input[pos] = LF
  \/ pos = start + m /\ pos = Len(input) /\ m > 0

ReaderInv ==
  /\ TypeOK
  /\ phase # "returned" => Holds(pos - start)
  /\ phase = "returned" => \E m \in 0..(pos - start) : Holds(m) /\ EndedAt(m)
  /\ phase = "done" => start = Len(input)

(* A chunk is the next bytes of the input. *)
LEMMA ChunkFacts ==
  ASSUME TypeOK, NEW n \in 1..(Len(input) - pos)
  PROVE  /\ Chunk(n) \in Seq(Byte) /\ Len(Chunk(n)) = n
         /\ \A i \in 1..n : Chunk(n)[i] = input[pos + i]
<1>1. input \in Seq(Byte) /\ pos \in Nat /\ pos + n <= Len(input)  BY DEF TypeOK
<1> QED  BY <1>1 DEF Chunk

(* `extend_from_slice` keeps the buffer the line's first bytes.            *)
LEMMA KeepHolds ==
  ASSUME TypeOK, NEW m, m = pos - start, Holds(m), NEW n \in 1..(Len(input) - pos),
         NEW before \in 0..n, \A i \in 1..before : Chunk(n)[i] # LF,
         Keep(Chunk(n), before), UNCHANGED <<input, limit, start>>
  PROVE  Holds(m + before)' /\ output' \in Seq(Byte)
<1> DEFINE r == Retained(before)
           kept == SubSeq(Chunk(n), 1, r)
<1>1. /\ limit \in Nat /\ pos \in Nat /\ start \in Nat /\ m \in Nat /\ n \in Nat /\ before \in Nat
      /\ output \in Seq(Byte) /\ Len(output) \in Nat
  BY DEF TypeOK
<1>2. Len(output) = IF m <= limit + 1 THEN m ELSE limit + 1  BY DEF Holds
<1>3. r \in 0..before /\ r = IF before <= limit + 1 - Len(output) THEN before ELSE limit + 1 - Len(output)
  BY <1>1, <1>2 DEF Retained, StorageLimit
<1>4. kept \in Seq(Byte) /\ Len(kept) = r /\ \A i \in 1..r : kept[i] = input[pos + i]
  <2>1. r \in 0..Len(Chunk(n)) /\ r \in 0..n  BY <1>1, <1>3, ChunkFacts
  <2>2. \A i \in 1..r : i \in 1..n  BY <1>1, <2>1
  <2> HIDE DEF r
  <2> QED  BY <2>1, <2>2, ChunkFacts, PrefixFacts
<1>5. output' = output \o kept  BY DEF Keep
<1> HIDE DEF kept, r
<1>6. output' \in Seq(Byte) /\ Len(output') = Len(output) + r
  BY <1>1, <1>4, <1>5, ConcatFacts
<1>7. \A i \in 1..Len(output) : output'[i] = output[i]
  BY <1>1, <1>4, <1>5, ConcatFacts
<1>8. \A i \in 1..r : output'[Len(output) + i] = kept[i]
  BY <1>1, <1>4, <1>5, ConcatFacts
<1>9. Len(output') = IF m + before <= limit + 1 THEN m + before ELSE limit + 1
  BY <1>1, <1>2, <1>3, <1>6
<1>10. \A i \in 1..Len(output') : output'[i] = input[start + i]
  <2> TAKE i \in 1..Len(output')
  <2>1. CASE i <= Len(output)  BY <1>1, <1>7, <2>1 DEF Holds
  <2>2. CASE i > Len(output)
    <3>1. r > 0 /\ m = Len(output) /\ pos = start + Len(output)
      BY <1>1, <1>2, <1>3, <1>6, <2>2
    <3>2. i - Len(output) \in 1..r /\ i = Len(output) + (i - Len(output))
      BY <1>1, <1>3, <1>6, <2>2
    <3>3. output'[i] = input[pos + (i - Len(output))]  BY <1>4, <1>8, <3>2
    <3>4. pos + (i - Len(output)) = start + i  BY <1>1, <3>1
    <3> QED  BY <3>3, <3>4
  <2> QED  BY <1>1, <1>6, <2>1, <2>2
<1>11. \A i \in 1..(m + before) : input[start + i] # LF
  <2> TAKE i \in 1..(m + before)
  <2>1. CASE i <= m
    <3>1. i \in 1..m  BY <1>1, <2>1
    <3> QED  BY <3>1 DEF Holds
  <2>2. CASE i > m
    <3>1. i - m \in 1..before /\ i - m \in 1..n /\ pos + (i - m) = start + i  BY <1>1, <2>2
    <3>2. Chunk(n)[i - m] = input[pos + (i - m)]  BY <3>1, ChunkFacts
    <3>3. Chunk(n)[i - m] # LF
      <4> HIDE DEF r
      <4> QED  BY <3>1
    <3> QED  BY <3>1, <3>2, <3>3
  <2> QED  BY <1>1, <2>1, <2>2
<1>12. too_long' <=> m + before > limit + 1
  <2>1. too_long <=> m > limit + 1  BY DEF Holds
  <2>2. too_long' <=> too_long \/ r < before  BY DEF Keep, r
  <2> QED  BY <1>1, <1>2, <1>3, <2>1, <2>2
<1>13. saw_line' <=> m + before > 0
  <2>1. saw_line <=> m > 0  BY DEF Holds
  <2>2. saw_line' <=> saw_line \/ before > 0  BY DEF Keep
  <2> QED  BY <1>1, <2>1, <2>2
<1> QED  BY <1>6, <1>9, <1>10, <1>11, <1>12, <1>13 DEF Holds

(* At most one byte, a CR, is popped. *)
LEMMA StripCRType ==
  ASSUME NEW raw \in Seq(Byte)
  PROVE  /\ StripCR(raw) \in Seq(Byte)
         /\ Len(StripCR(raw)) <= Len(raw) /\ Len(raw) <= Len(StripCR(raw)) + 1
<1>1. CASE raw # <<>>
  <2>1. Len(raw) - 1 \in 0..Len(raw)  BY <1>1
  <2>2. SubSeq(raw, 1, Len(raw) - 1) \in Seq(Byte) /\ Len(SubSeq(raw, 1, Len(raw) - 1)) = Len(raw) - 1
    BY <2>1, PrefixFacts
  <2> QED  BY <2>1, <2>2 DEF StripCR
<1> QED  BY <1>1 DEF StripCR

(* ReaderInv holds before the first call. *)
LEMMA ReaderInit == Init => ReaderInv
<1> SUFFICES ASSUME Init PROVE ReaderInv  OBVIOUS
<1>1. input \in Seq(Byte) /\ limit \in Nat  BY ReaderAssumption DEF Init
<1>2. TypeOK
  <2>1. Len(input) \in Nat /\ 0 \in 0..Len(input) /\ 0 \in 0..0  BY <1>1
  <2>2. start \in 0..pos /\ pos \in 0..Len(input)  BY <2>1 DEF Init
  <2>3. output \in Seq(Byte) /\ lines \in Seq(Obtained)  BY DEF Init
  <2> QED  BY <1>1, <2>2, <2>3 DEF Init, TypeOK
<1>3. Holds(0)  BY <1>1 DEF Init, Holds
<1> QED  BY <1>2, <1>3 DEF Init, ReaderInv

(* One iteration of the loop keeps the invariant.                          *)
LEMMA FillStep ==
  ASSUME ReaderInv, NEW n \in 1..(Len(input) - pos), Fill(n)
  PROVE  ReaderInv'
<1>0. PICK m : m = pos - start  OBVIOUS
<1>1. TypeOK /\ Holds(m) /\ phase = "reading"
  BY <1>0 DEF ReaderInv, Fill, FillToNewline, FillWithoutNewline
<1>2. /\ pos \in Nat /\ start \in Nat /\ start <= pos /\ m \in Nat /\ n \in Nat
      /\ Len(input) \in Nat /\ pos + n <= Len(input)
  BY <1>0, <1>1 DEF TypeOK
<1>3. CASE FillToNewline(n)
  <2>1. PICK i \in 1..n : IsFirstNewline(Chunk(n), i) /\ Keep(Chunk(n), i - 1) /\ pos' = pos + i
    BY <1>3 DEF FillToNewline
  <2>2. UNCHANGED <<input, limit, start, lines>> /\ phase' = "returned"
    BY <1>3 DEF FillToNewline
  <2>3. i - 1 \in 0..n /\ \A j \in 1..(i - 1) : Chunk(n)[j] # LF
    BY <1>2, <2>1 DEF IsFirstNewline
  <2>4. Holds(m + (i - 1))' /\ output' \in Seq(Byte)
    BY <1>0, <1>1, <2>1, <2>2, <2>3, KeepHolds
  <2>5. Chunk(n)[i] = input[pos + i]  BY <1>1, ChunkFacts
  <2>6. input[pos + i] = LF  BY <2>1, <2>5 DEF IsFirstNewline
  <2>7. pos' \in 0..Len(input') /\ start' \in 0..pos'  BY <1>2, <2>1, <2>2
  <2>8. TypeOK'
    <3>1. saw_line' \in BOOLEAN /\ too_long' \in BOOLEAN  BY <1>1, <2>1 DEF Keep, TypeOK
    <3> QED  BY <1>1, <2>2, <2>4, <2>7, <3>1 DEF TypeOK
  <2>9. m + (i - 1) \in 0..(pos' - start') /\ pos' = start' + (m + (i - 1)) + 1
    BY <1>0, <1>2, <2>1, <2>2
  <2>10. EndedAt(m + (i - 1))'  BY <2>1, <2>2, <2>6, <2>9 DEF EndedAt
  <2> QED  BY <2>2, <2>4, <2>8, <2>9, <2>10 DEF ReaderInv
<1>4. CASE FillWithoutNewline(n)
  <2>1. Keep(Chunk(n), n) /\ (\A i \in 1..n : Chunk(n)[i] # LF) /\ pos' = pos + n
        /\ UNCHANGED <<input, limit, phase, start, lines>>
    BY <1>4 DEF FillWithoutNewline
  <2>2. n \in 0..n  BY <1>2
  <2>3. Holds(m + n)' /\ output' \in Seq(Byte)
    BY <1>0, <1>1, <2>1, <2>2, KeepHolds
  <2>4. m + n = pos' - start' /\ pos' \in 0..Len(input') /\ start' \in 0..pos'
    BY <1>0, <1>2, <2>1
  <2>5. TypeOK'
    <3>1. saw_line' \in BOOLEAN /\ too_long' \in BOOLEAN  BY <1>1, <2>1 DEF Keep, TypeOK
    <3> QED  BY <1>1, <2>1, <2>3, <2>4, <3>1 DEF TypeOK
  <2>6. phase' = "reading"  BY <1>1, <2>1
  <2> QED  BY <2>3, <2>4, <2>5, <2>6 DEF ReaderInv
<1> QED  BY <1>3, <1>4 DEF Fill

(* Every step keeps ReaderInv. *)
LEMMA ReaderNext == ReaderInv /\ [Next]_vars => ReaderInv'
<1> SUFFICES ASSUME ReaderInv, [Next]_vars PROVE ReaderInv'  OBVIOUS
<1>t. TypeOK  BY DEF ReaderInv
<1>1. CASE \E n \in 1..(Len(input) - pos) : Fill(n)  BY <1>1, FillStep
<1>2. CASE EndOfInput
  <2>1. TypeOK'  BY <1>t, <1>2 DEF EndOfInput, TypeOK
  <2>2. pos - start \in 0..(pos - start) /\ pos = start + (pos - start)  BY <1>t DEF TypeOK
  <2>3. Holds(pos - start)  BY <1>2 DEF EndOfInput, ReaderInv
  <2>4. \A k : Holds(k)' <=> Holds(k)  BY <1>2 DEF EndOfInput, Holds
  <2>5. CASE saw_line
    <3>1. phase' = "returned" /\ UNCHANGED <<pos, start, input>>  BY <1>2, <2>5 DEF EndOfInput
    <3>2. EndedAt(pos - start)
      BY <1>2, <2>2, <2>3, <2>5 DEF EndOfInput, EndedAt, Holds
    <3>3. \A k : EndedAt(k)' <=> EndedAt(k)  BY <3>1 DEF EndedAt
    <3>4. \E k \in 0..(pos' - start') : Holds(k)' /\ EndedAt(k)'
      BY <2>2, <2>3, <2>4, <3>1, <3>2, <3>3
    <3> QED  BY <2>1, <3>1, <3>4 DEF ReaderInv
  <2>6. CASE ~saw_line
    <3>1. phase' = "done" /\ UNCHANGED <<pos, start, input>> /\ pos = Len(input)
      BY <1>2, <2>6 DEF EndOfInput
    <3>2. saw_line <=> pos - start > 0  BY <2>3 DEF Holds
    <3>3. start = Len(input)  BY <1>t, <2>6, <3>1, <3>2 DEF TypeOK
    <3>4. Holds(pos - start)'  BY <2>3, <2>4, <3>1
    <3> QED  BY <2>1, <3>1, <3>3, <3>4 DEF ReaderInv
  <2> QED  BY <2>5, <2>6
<1>3. CASE TakeLine
  <2>1. UNCHANGED <<input, limit, pos>> /\ start' = pos /\ output' = <<>> /\ saw_line' = FALSE
        /\ too_long' = FALSE /\ phase' = "reading"
    BY <1>3 DEF TakeLine
  <2>2. lines' \in Seq(Obtained)
    <3>1. StripCR(output) \in Seq(Byte)  BY <1>t, StripCRType DEF TypeOK
    <3>2. Content(StripCR(output)) \in [oversized : {FALSE}, bytes : Seq(Byte)]
      BY <3>1 DEF Content
    <3>3. PICK got \in Obtained : lines' = Append(lines, got)
      BY <1>3, <3>2 DEF TakeLine, Obtained
    <3> QED  BY <1>t, <3>3 DEF TypeOK
  <2>3. TypeOK'
    <3>1. pos \in 0..Len(input) /\ pos \in 0..pos  BY <1>t DEF TypeOK
    <3>2. start' \in 0..pos' /\ pos' \in 0..Len(input')  BY <2>1, <3>1
    <3>3. output' \in Seq(Byte)  BY <2>1
    <3> QED  BY <1>t, <2>1, <2>2, <3>2, <3>3 DEF TypeOK
  <2>4. Holds(0)'  BY <1>t, <2>1 DEF Holds, TypeOK
  <2>5. pos' - start' = 0  BY <1>t, <2>1 DEF TypeOK
  <2> QED  BY <2>1, <2>3, <2>4, <2>5 DEF ReaderInv
<1>4. CASE ReadError
  <2>1. TypeOK'  BY <1>t, <1>4 DEF ReadError, TypeOK
  <2>2. Holds(pos - start)'  BY <1>4 DEF ReadError, ReaderInv, Holds
  <2> QED  BY <1>4, <2>1, <2>2 DEF ReadError, ReaderInv
<1>5. CASE UNCHANGED vars
  <2>1. TypeOK'  BY <1>t, <1>5 DEF vars, TypeOK
  <2>2. \A k : (Holds(k)' <=> Holds(k)) /\ (EndedAt(k)' <=> EndedAt(k))
    BY <1>5 DEF vars, Holds, EndedAt
  <2> QED  BY <1>5, <2>1, <2>2 DEF vars, ReaderInv
<1> QED  BY <1>1, <1>2, <1>3, <1>4, <1>5 DEF Next, Progress

(* The reader consumes no more than the input holds, and its buffer and    *)
(* flags keep their types, for every chunking.                             *)
THEOREM ReaderTypeCorrect == Spec => []TypeOK
<1>1. ReaderInv => TypeOK  BY DEF ReaderInv
<1> QED  BY <1>1, ReaderInit, ReaderNext, PTL DEF Spec

(* Memory stays bounded for every input: the buffer never holds more than  *)
(* the limit and one byte, and what it holds is the start of the line.     *)
THEOREM MemoryIsBounded == Spec => []BufferIsBounded
<1>1. ReaderInv => BufferIsBounded
  <2> SUFFICES ASSUME ReaderInv PROVE BufferIsBounded  OBVIOUS
  <2>1. TypeOK  BY DEF ReaderInv
  <2>2. PICK m \in Nat : Holds(m) /\ start + m <= pos
    <3>1. pos - start \in Nat /\ pos \in Nat /\ start \in Nat  BY <2>1 DEF TypeOK
    <3>2. CASE phase # "returned"  BY <3>1, <3>2 DEF ReaderInv
    <3>3. CASE phase = "returned"
      <4>1. PICK m \in 0..(pos - start) : Holds(m)  BY <3>3 DEF ReaderInv
      <4>2. m \in Nat /\ start + m <= pos  BY <3>1, <4>1
      <4> QED  BY <4>1, <4>2
    <3> QED  BY <3>2, <3>3
  <2>3. limit \in Nat /\ pos \in Nat /\ start \in Nat /\ output \in Seq(Byte)  BY <2>1 DEF TypeOK
  <2>4. Len(output) = (IF m <= limit + 1 THEN m ELSE limit + 1) /\ (too_long <=> m > limit + 1)
    BY <2>2 DEF Holds
  <2>5. \A i \in DOMAIN output : output[i] = input[start + i]
    <3>1. DOMAIN output = 1..Len(output)  BY <2>3
    <3>2. \A i \in 1..Len(output) : output[i] = input[start + i]  BY <2>2 DEF Holds
    <3> QED  BY <3>1, <3>2
  <2>6. Len(output) <= limit + 1 /\ (too_long => Len(output) = limit + 1 /\ pos > start + Len(output))
    BY <2>2, <2>3, <2>4
  <2> QED  BY <2>5, <2>6 DEF BufferIsBounded
<1> QED  BY <1>1, ReaderInit, ReaderNext, PTL DEF Spec

(* What the caller makes of the buffer is what the whole line would give.  *)
LEMMA TakenIsClassified ==
  ASSUME TypeOK, NEW m \in 0..(Len(input) - start), Holds(m)
  PROVE  (IF too_long \/ Len(StripCR(output)) > limit THEN Oversized ELSE Content(StripCR(output)))
           = Physical!Classified(SubSeq(input, start + 1, start + m))
<1> DEFINE bytes == SubSeq(input, start + 1, start + m)
<1>1. /\ limit \in Nat /\ start \in Nat /\ m \in Nat /\ input \in Seq(Byte) /\ output \in Seq(Byte)
      /\ start + m <= Len(input)
  BY DEF TypeOK
<1>2. bytes \in Seq(Byte) /\ Len(bytes) = m /\ \A i \in 1..m : bytes[i] = input[start + i]
  <2>1. bytes = [i \in 1..m |-> input[start + i]]
    BY <1>1
  <2>2. \A i \in 1..m : start + i \in 1..Len(input)
    BY <1>1
  <2>3. \A i \in 1..m : input[start + i] \in Byte
    BY <1>1, <2>2
  <2> HIDE DEF bytes
  <2> QED
    BY <1>1, <2>1, <2>3
<1>3. Physical!Classified(bytes) =
        IF Len(StripCR(bytes)) > limit THEN Oversized ELSE Content(StripCR(bytes))
  BY DEF Physical!Classified, Physical!StripCR, StripCR, Physical!CR, CR, Physical!Oversized, Oversized,
         Physical!Content, Content
<1> HIDE DEF bytes
<1>4. CASE m <= limit + 1
  <2>1. Len(output) = m /\ ~too_long /\ \A i \in 1..m : output[i] = input[start + i]
    BY <1>1, <1>4 DEF Holds
  <2>2. output = bytes  BY <1>1, <1>2, <2>1
  <2> QED  BY <1>3, <2>1, <2>2 DEF bytes
<1>5. CASE m > limit + 1
  <2>1. too_long  BY <1>5 DEF Holds
  <2>2. Len(StripCR(bytes)) > limit
    <3>1. Len(bytes) <= Len(StripCR(bytes)) + 1 /\ StripCR(bytes) \in Seq(Byte)
      BY <1>2, StripCRType
    <3> QED  BY <1>1, <1>2, <1>5, <3>1
  <2> QED  BY <1>3, <2>1, <2>2 DEF bytes
<1> QED  BY <1>1, <1>4, <1>5

(* Taking a line is delivering it.                                         *)
LEMMA TakeDelivers ==
  ASSUME ReaderInv, TakeLine
  PROVE  Physical!Deliver
<1>1. TypeOK /\ phase = "returned"  BY DEF ReaderInv, TakeLine
<1>2. PICK m \in 0..(pos - start) : Holds(m) /\ EndedAt(m)  BY <1>1 DEF ReaderInv
<1>3. /\ pos \in Nat /\ start \in Nat /\ m \in Nat /\ Len(input) \in Nat
      /\ pos <= Len(input) /\ start + m <= pos
  BY <1>1, <1>2 DEF TypeOK
<1> DEFINE stop == start + m + 1
<1>4. stop \in (start + 1)..(Len(input) + 1)  BY <1>3
<1>5. stop <= Len(input) <=> pos = start + m + 1
  BY <1>2, <1>3 DEF EndedAt
<1>6. Physical!IsLineEnd(stop)
  <2>1. stop <= Len(input) => input[stop] = LF  BY <1>2, <1>3, <1>5 DEF EndedAt
  <2>2. \A i \in (start + 1)..(stop - 1) : input[i] # LF
    <3> TAKE i \in (start + 1)..(stop - 1)
    <3>1. i - start \in 1..m /\ start + (i - start) = i  BY <1>3
    <3>2. input[start + (i - start)] # LF  BY <1>2, <3>1 DEF Holds
    <3> QED  BY <3>1, <3>2
  <2> QED  BY <1>4, <2>1, <2>2 DEF Physical!IsLineEnd, Physical!LF, LF
<1>7. lines' = Append(lines, Physical!Classified(SubSeq(input, start + 1, stop - 1)))
  <2>1. m \in 0..(Len(input) - start) /\ stop - 1 = start + m  BY <1>3
  <2> HIDE DEF stop
  <2> QED  BY <1>1, <1>2, <2>1, TakenIsClassified DEF TakeLine
<1>8. start' = IF stop <= Len(input) THEN stop ELSE Len(input)
  BY <1>2, <1>3, <1>5 DEF TakeLine, EndedAt
<1>9. start < Len(input)  BY <1>2, <1>3 DEF EndedAt
<1>10. UNCHANGED <<input, limit>> /\ phase' = "reading"  BY DEF TakeLine
<1> HIDE DEF stop
<1> QED  BY <1>1, <1>4, <1>6, <1>7, <1>8, <1>9, <1>10 DEF Physical!Deliver

(* Every step of the reader is a delivery, a failure or a stutter of PhysicalLines. *)
LEMMA ReaderStepSimulates == ReaderInv /\ [Next]_vars => [Physical!Next]_Physical!vars
<1> SUFFICES ASSUME ReaderInv, [Next]_vars PROVE [Physical!Next]_Physical!vars  OBVIOUS
<1>1. CASE \E n \in 1..(Len(input) - pos) : Fill(n)
  BY <1>1 DEF Fill, FillToNewline, FillWithoutNewline, Physical!vars
<1>2. CASE EndOfInput
  <2>1. CASE saw_line  BY <1>2, <2>1 DEF EndOfInput, Physical!vars
  <2>2. CASE ~saw_line
    <3>1. ReaderInv'  BY <1>2, ReaderNext DEF Next, Progress
    <3>2. start = Len(input)  BY <1>2, <2>2, <3>1 DEF EndOfInput, ReaderInv
    <3> QED  BY <1>2, <2>2, <3>2 DEF EndOfInput, Physical!Next, Physical!End
  <2> QED  BY <2>1, <2>2
<1>3. CASE TakeLine  BY <1>3, TakeDelivers DEF Physical!Next
<1>4. CASE ReadError  BY <1>4 DEF ReadError, Physical!Next, Physical!Fail
<1>5. CASE UNCHANGED vars  BY <1>5 DEF vars, Physical!vars
<1> QED  BY <1>1, <1>2, <1>3, <1>4, <1>5 DEF Next, Progress

(* However the reader chunks the input, the caller obtains the lines of    *)
(* PhysicalLines, CRLF, the limit and the last unterminated line included. *)
THEOREM ReaderImplementsLines == Spec => ReadsPhysicalLines
<1>1. Init => Physical!Init
  <2>1. Byte = Physical!Byte
    BY DEF Byte, Physical!Byte, CR, Physical!CR, LF, Physical!LF
  <2> QED  BY <2>1, ReaderAssumption DEF Init, Physical!Init
<1> QED
  BY <1>1, ReaderInit, ReaderNext, ReaderStepSimulates, PTL DEF Spec, ReadsPhysicalLines, Physical!Spec

-----------------------------------------------------------------------------
(***************************************************************************)
(* The pipeline's reader is the reader.                                    *)
(***************************************************************************)

(* Every step of the composition is one of the reader, or leaves it alone. *)
LEMMA PipelineStepReads == [PipelineNext]_pipeline => [Next]_vars
BY DEF PipelineNext, ParseProgress, ReadChunk, EndOfLastLine, ParseLine, EndOfFile, ReaderFails,
       Next, Progress, pipeline

(* Whatever the parser above it does, the reader behaves as it does alone: the
   calls of read_bounded_line are those its own specification allows. *)
THEOREM PipelineReads == PipelineSpec => Spec
BY PipelineStepReads, PTL DEF PipelineSpec, PipelineInit, Spec

(* Whatever the parser above makes of them, the lines it is handed are     *)
(* those of PhysicalLines.                                                 *)
THEOREM PipelineReadsPhysicalLines == PipelineSpec => ReadsPhysicalLines
BY PipelineReads, ReaderImplementsLines, PTL

(* A long line costs the parse no more memory than the limit and one byte. *)
THEOREM PipelineMemoryIsBounded == PipelineSpec => []BufferIsBounded
BY PipelineReads, MemoryIsBounded, PTL

(* So the reader's invariant holds of the composition. *)
LEMMA PipelineReaderInv == PipelineSpec => []ReaderInv
BY PipelineReads, ReaderInit, ReaderNext, PTL DEF Spec

-----------------------------------------------------------------------------
(***************************************************************************)
(* What the parser makes of a line is a line of VboParser.                 *)
(***************************************************************************)

\* No line contains its end.
LineByte == Byte \ {LF}
Taken == {Oversized} \cup {Content(bytes) : bytes \in Seq(LineByte)}
LinesRead == {Classify(c) : c \in Taken}

V == INSTANCE VboParserProofs WITH Lines <- LinesRead

(* The bytes of a line, each a field of its own or nothing.                *)
Pieces(bytes) == [i \in DOMAIN bytes |-> IF bytes[i] \in Whitespace THEN <<>> ELSE <<bytes[i]>>]

(* Splitting keeps the bytes that are no white space. *)
LEMMA PiecesType ==
  ASSUME NEW bytes \in Seq(LineByte)
  PROVE  Pieces(bytes) \in Seq(Seq(LineByte \ Whitespace)) /\ Len(Pieces(bytes)) = Len(bytes)
<1>1. \A i \in DOMAIN bytes :
        (IF bytes[i] \in Whitespace THEN <<>> ELSE <<bytes[i]>>) \in Seq(LineByte \ Whitespace)
  <2> TAKE i \in DOMAIN bytes
  <2>1. bytes[i] \in LineByte
    OBVIOUS
  <2>2. CASE bytes[i] \in Whitespace
    BY <2>2
  <2>3. CASE bytes[i] \notin Whitespace
    BY <2>1, <2>3
  <2> QED
    BY <2>2, <2>3
<1>2. DOMAIN bytes = 1..Len(bytes) /\ Len(bytes) \in Nat
  OBVIOUS
<1>3. Pieces(bytes) \in [1..Len(bytes) -> Seq(LineByte \ Whitespace)]
  BY <1>1, <1>2 DEF Pieces
<1> QED
  BY <1>2, <1>3

(* The fields of a line are its tokens. *)
LEMMA FieldsType ==
  ASSUME NEW bytes \in Seq(LineByte)
  PROVE  Fields(bytes) \in Seq(LineByte \ Whitespace)
<1>1. FlattenSeq(Pieces(bytes)) \in Seq(LineByte \ Whitespace)
  BY PiecesType, FlattenType
<1> QED
  BY <1>1 DEF Fields, Pieces

(* The carriage return a CRLF line ends with is no field.                  *)
LEMMA FieldsStripCR ==
  ASSUME NEW bytes \in Seq(LineByte)
  PROVE  StripCR(bytes) \in Seq(LineByte) /\ Fields(StripCR(bytes)) = Fields(bytes)
<1>1. CASE bytes = <<>> \/ bytes[Len(bytes)] # CR
  BY <1>1 DEF StripCR
<1>2. CASE ~(bytes = <<>> \/ bytes[Len(bytes)] # CR)
  <2>1. PICK front \in Seq(LineByte), b \in LineByte : bytes = Append(front, b)
    BY <1>2, SequenceEmptyOrAppend
  <2>2. Len(bytes) = Len(front) + 1 /\ Len(front) \in Nat /\ b = CR
        /\ \A i \in 1..Len(front) : bytes[i] = front[i]
    BY <1>2, <2>1
  <2>3. StripCR(bytes) = front
    <3>1. StripCR(bytes) = SubSeq(bytes, 1, Len(front))
      BY <1>2, <2>2 DEF StripCR
    <3>2. Len(front) \in 0..Len(bytes)
      BY <2>2
    <3>3. SubSeq(bytes, 1, Len(front)) \in Seq(LineByte)
          /\ Len(SubSeq(bytes, 1, Len(front))) = Len(front)
          /\ \A i \in 1..Len(front) : SubSeq(bytes, 1, Len(front))[i] = bytes[i]
      BY <3>2, PrefixFacts
    <3> QED
      BY <2>2, <3>1, <3>3, SeqEqual
  <2>4. Pieces(bytes) = Append(Pieces(front), <<>>)
    <3>1. /\ Pieces(bytes) \in Seq(Seq(LineByte \ Whitespace)) /\ Len(Pieces(bytes)) = Len(bytes)
          /\ Pieces(front) \in Seq(Seq(LineByte \ Whitespace)) /\ Len(Pieces(front)) = Len(front)
      BY PiecesType
    <3>2. \A i \in 1..Len(front) : Pieces(bytes)[i] = Pieces(front)[i]
      BY <2>2 DEF Pieces
    <3>3. Pieces(bytes)[Len(front) + 1] = <<>>
      <4>1. Len(front) + 1 \in DOMAIN bytes /\ bytes[Len(front) + 1] \in Whitespace
        BY <1>2, <2>2 DEF Whitespace
      <4> QED
        BY <4>1 DEF Pieces
    <3> QED
      <4>1. PICK p \in Seq(Seq(LineByte \ Whitespace)) : p = Pieces(front)
        BY <3>1
      <4>2. PICK q \in Seq(Seq(LineByte \ Whitespace)) : q = Pieces(bytes)
        BY <3>1
      <4>3. Len(p) \in Nat /\ Len(q) = Len(p) + 1 /\ \A i \in 1..Len(p) : q[i] = p[i]
        BY <2>2, <3>1, <3>2, <4>1, <4>2
      <4>4. q[Len(p) + 1] = <<>>
        BY <3>1, <3>3, <4>1, <4>2
      <4>5. Append(p, <<>>) \in Seq(Seq(LineByte \ Whitespace)) /\ Len(Append(p, <<>>)) = Len(p) + 1
        OBVIOUS
      <4>6. ASSUME NEW i \in 1..(Len(p) + 1) PROVE Append(p, <<>>)[i] = q[i]
        <5>1. CASE i = Len(p) + 1
          BY <4>4, <5>1
        <5>2. CASE i \in 1..Len(p)
          BY <4>3, <5>2
        <5> QED
          BY <5>1, <5>2
      <4>7. Append(p, <<>>) = q
        BY <4>3, <4>5, <4>6, SeqEqual
      <4> QED
        BY <4>1, <4>2, <4>7
  <2>5. FlattenSeq(Pieces(bytes)) = FlattenSeq(Pieces(front)) \o <<>>
    <3>1. Pieces(front) \in Seq(Seq(LineByte \ Whitespace)) /\ <<>> \in Seq(LineByte \ Whitespace)
      BY PiecesType
    <3> QED
      BY <2>4, <3>1, FlattenAppend
  <2>6. FlattenSeq(Pieces(front)) \in Seq(LineByte \ Whitespace)
    BY PiecesType, FlattenType
  <2>7. FlattenSeq(Pieces(bytes)) = FlattenSeq(Pieces(front))
    BY <2>5, <2>6, ConcatNothing
  <2> QED
    BY <2>1, <2>3, <2>7 DEF Fields, Pieces
<1> QED
  BY <1>1, <1>2

(* What the loop makes of a line is a line of the parser; it is oversized exactly when
   the reader called it so, and a text has the fields of its bytes. *)
LEMMA ClassifyType ==
  ASSUME NEW c \in Taken
  PROVE  /\ Classify(c) \in V!Line
         /\ Classify(c).kind = "oversized" <=> c = Oversized
         /\ Classify(c).kind = "text" => Classify(c).text = Fields(c.bytes)
<1>1. CASE c = Oversized
  BY <1>1 DEF Classify, Oversized, V!Line
<1>2. CASE c # Oversized
  <2>1. PICK bytes \in Seq(LineByte) : c = Content(bytes)
    BY <1>2 DEF Taken
  <2> DEFINE fields == Fields(bytes)
  <2>2. ~c.oversized /\ c.bytes = bytes
    BY <2>1 DEF Content
  <2>3. fields \in Seq(LineByte \ Whitespace)
    BY FieldsType
  <2> HIDE DEF fields
  <2>4. /\ fields = <<>> => Classify(c) = [kind |-> "blank"]
        /\ fields # <<>> =>
             IF \E i \in DOMAIN fields : fields[i] \in NotUtf8
               THEN Classify(c) = [kind |-> "notUtf8"]
               ELSE IF IsMarker(fields)
                 THEN Classify(c) = [kind |-> "marker", name |-> NameIn(fields)]
                 ELSE Classify(c) = [kind |-> "text", text |-> fields]
    BY <2>2 DEF Classify, fields
  <2>5. CASE fields = <<>>
    BY <1>2, <2>4, <2>5 DEF V!Line
  <2>6. CASE fields # <<>> /\ \E i \in DOMAIN fields : fields[i] \in NotUtf8
    BY <1>2, <2>4, <2>6 DEF V!Line
  <2>7. CASE fields # <<>> /\ ~(\E i \in DOMAIN fields : fields[i] \in NotUtf8)
    <3>1. fields \in Seq(Number \cup Word)
      <4>1. \A i \in 1..Len(fields) : fields[i] \in Number \cup Word
        BY <2>3, <2>7, PipelineAssumption DEF LineByte, Byte, Whitespace, Token
      <4> QED
        BY <2>3, <4>1
    <3>2. CASE IsMarker(fields)
      <4>1. NameIn(fields) \in V!MarkerName
        <5>1. fields[1] \in V!MarkerName
          BY <3>2 DEF IsMarker, V!MarkerName, P!MarkerName, V!KnownName, P!KnownName, V!Section, P!Section
        <5>2. (CHOOSE u \in UnknownName : TRUE) \in UnknownName
          BY PipelineAssumption
        <5> QED
          BY <5>1, <5>2 DEF NameIn, V!MarkerName
      <4> QED
        BY <1>2, <2>4, <2>7, <3>2, <4>1 DEF V!Line
    <3>3. CASE ~IsMarker(fields)
      <4>1. fields \in V!Text
        BY <2>7, <3>1 DEF V!Text, V!Field
      <4> QED
        BY <1>2, <2>2, <2>4, <2>7, <3>3, <4>1 DEF V!Line, fields
    <3> QED
      BY <3>2, <3>3
  <2> QED
    BY <2>5, <2>6, <2>7
<1> QED
  BY <1>1, <1>2

(* So VboParser's assumptions hold of the lines read.                      *)
LEMMA ParserAssumptionHolds ==
  /\ LinesRead \subseteq V!Line
  /\ Number \cap Word = {}
  /\ FileCreated \subseteq {t \in V!Text : Len(t) > 1 /\ t[1] \in Word}
  /\ NoUnit \notin V!Field
  /\ UnknownName \cap V!KnownName = {}
  /\ MaxRows \in Nat /\ MaxIssues \in Nat /\ MaxLines \in Nat
<1>1. LinesRead \subseteq V!Line
  BY ClassifyType DEF LinesRead
<1>2. V!Text = P!Text /\ V!Field = P!Field /\ V!KnownName = P!KnownName
  BY DEF V!Text, P!Text, V!Field, P!Field, V!KnownName, P!KnownName, V!Section, P!Section
<1> QED
  BY <1>1, <1>2, PipelineAssumption

-----------------------------------------------------------------------------
(***************************************************************************)
(* The pipeline's parser is VboParser on the lines read: what VboParser    *)
(* promises for every sequence of lines holds for every file.              *)
(***************************************************************************)

(* The parser's module and that of its proofs, instantiated apart, have the same
   operators. *)
LEMMA SameWords ==
  /\ V!Running = P!Running /\ V!Ok = P!Ok /\ V!LineTooLong = P!LineTooLong
  /\ \A tag : V!Fatal(tag) = P!Fatal(tag)
  /\ \A name : V!FromMarker(name) = P!FromMarker(name)
  /\ \A chans, toks : V!ApplyUnits(chans, toks) = P!ApplyUnits(chans, toks)
  /\ \A text : V!ParsedRow(text) = P!ParsedRow(text)
  /\ V!TableFull = P!TableFull
<1>1. V!Running = P!Running /\ V!Ok = P!Ok /\ V!LineTooLong = P!LineTooLong
  BY DEF V!Running, P!Running, V!Ok, P!Ok, V!LineTooLong, P!LineTooLong
<1>2. \A tag : V!Fatal(tag) = P!Fatal(tag)
  BY DEF V!Fatal, P!Fatal
<1>3. \A name : V!FromMarker(name) = P!FromMarker(name)
  BY DEF V!FromMarker, P!FromMarker, V!KnownName, P!KnownName, V!Section, P!Section
<1>4. \A chans, toks : V!ApplyUnits(chans, toks) = P!ApplyUnits(chans, toks)
  BY DEF V!ApplyUnits, P!ApplyUnits
<1>5. \A text : V!ParsedRow(text) = P!ParsedRow(text)
  BY DEF V!ParsedRow, P!ParsedRow, V!ParseRowInto, P!ParseRowInto, V!FirstBad, P!FirstBad,
         V!WrongColumnCount, P!WrongColumnCount, V!InvalidNumber, P!InvalidNumber
<1>6. V!TableFull = P!TableFull
  BY DEF V!TableFull, P!TableFull
<1> QED
  BY <1>1, <1>2, <1>3, <1>4, <1>5, <1>6

(* So a step of one is a step of the other. *)
LEMMA SameStep ==
  ASSUME NEW l, P!Step(l)
  PROVE  V!Step(l)
<1> USE SameWords DEF P!ReadLine, V!ReadLine, P!Return, V!Return, P!PushIssue, V!PushIssue,
                      P!PushText, V!PushText, P!header, V!header, P!schema, V!schema,
                      P!table, V!table
<1>1. CASE P!OversizedRecord(l)
  BY <1>1 DEF P!OversizedRecord, V!OversizedRecord, V!Step
<1>2. CASE P!OversizedLine(l)
  BY <1>2 DEF P!OversizedLine, V!OversizedLine, V!Step
<1>3. CASE P!BlankLine(l)
  BY <1>3 DEF P!BlankLine, V!BlankLine, V!Step
<1>4. CASE P!NotUtf8Line(l)
  BY <1>4 DEF P!NotUtf8Line, V!NotUtf8Line, V!Step
<1>5. CASE P!DataMarkerWithoutSchema(l)
  BY <1>5 DEF P!DataMarkerWithoutSchema, V!DataMarkerWithoutSchema, V!Step
<1>6. CASE P!DataMarker(l)
  BY <1>6 DEF P!DataMarker, V!DataMarker, V!Step
<1>7. CASE P!OtherMarker(l)
  BY <1>7 DEF P!OtherMarker, V!OtherMarker, V!Step
<1>8. CASE P!CreatedText(l)
  BY <1>8 DEF P!CreatedText, V!CreatedText, V!Step
<1>9. CASE P!PreambleText(l)
  BY <1>9 DEF P!PreambleText, V!PreambleText, V!Step
<1>10. CASE P!ColumnNamesText(l)
  BY <1>10 DEF P!ColumnNamesText, V!ColumnNamesText, V!Step
<1>11. CASE P!ChannelUnitsText(l)
  BY <1>11 DEF P!ChannelUnitsText, V!ChannelUnitsText, V!Step
<1>12. CASE P!HeaderText(l)
  BY <1>12 DEF P!HeaderText, V!HeaderText, V!Step
<1>13. CASE P!RecordOverLimit(l)
  BY <1>13 DEF P!RecordOverLimit, V!RecordOverLimit, V!Step
<1>14. CASE P!AcceptRecord(l)
  BY <1>14 DEF P!AcceptRecord, V!AcceptRecord, V!Step
<1>15. CASE P!OmitRecord(l)
  BY <1>15 DEF P!OmitRecord, V!OmitRecord, V!Step
<1>16. CASE P!RejectRecord(l)
  BY <1>16 DEF P!RejectRecord, V!RejectRecord, V!Step
<1> QED
  BY <1>1, <1>2, <1>3, <1>4, <1>5, <1>6, <1>7, <1>8, <1>9, <1>10, <1>11, <1>12, <1>13,
     <1>14, <1>15, <1>16 DEF P!Step

(* The bytes of a line before its end are the file's, and no newline.      *)
LEMMA HeldBytes ==
  ASSUME TypeOK, NEW m \in Nat, Holds(m)
  PROVE  output \in Seq(LineByte) /\ StripCR(output) \in Seq(LineByte)
<1>1. output \in Seq(Byte) /\ Len(output) \in Nat /\ limit \in Nat
  BY DEF TypeOK
<1>2. \A i \in 1..Len(output) : output[i] # LF
  <2>1. Len(output) <= m
    BY <1>1 DEF Holds
  <2> QED
    BY <1>1, <2>1 DEF Holds
<1>3. output \in Seq(LineByte)
  BY <1>1, <1>2 DEF LineByte
<1> QED
  BY <1>3, FieldsStripCR

(* What the parser is handed is a line without its end.                    *)
LEMMA TakenType ==
  ASSUME ReaderInv, TakeLine
  PROVE  \E c \in Taken : lines' = Append(lines, c) /\ Last(lines') = c
<1>1. TypeOK /\ phase = "returned"
  BY DEF ReaderInv, TakeLine
<1>2. PICK m \in Nat : Holds(m)
  BY <1>1 DEF ReaderInv, TypeOK
<1>3. StripCR(output) \in Seq(LineByte)
  BY <1>1, <1>2, HeldBytes
<1>4. PICK c \in Taken : lines' = Append(lines, c)
  BY <1>3 DEF TakeLine, Taken
<1>5. lines \in Seq(Obtained)
  BY <1>1 DEF TypeOK
<1>6. Last(lines') = c
  BY <1>4, <1>5 DEF Last
<1> QED
  BY <1>4, <1>6

(* Every step of the composition is a step of the parser or leaves it alone. *)
LEMMA SameNext == ReaderInv /\ [PipelineNext]_pipeline => [V!Next]_V!vars
<1> SUFFICES ASSUME ReaderInv, [PipelineNext]_pipeline PROVE [V!Next]_V!vars
  OBVIOUS
<1>1. CASE UNCHANGED parser
  BY <1>1 DEF parser, V!vars, V!header, V!schema, V!table
<1>2. CASE ParseLine
  <2>1. PICK c \in Taken : Last(lines') = c
    BY <1>2, TakenType DEF ParseLine
  <2>2. Classify(c) \in LinesRead /\ P!Step(Classify(c))
    BY <1>2, <2>1 DEF ParseLine, LinesRead
  <2>3. V!Step(Classify(c))
    BY <2>2, SameStep
  <2> QED
    BY <2>2, <2>3 DEF V!Next, V!Progress
<1>3. CASE EndOfFile
  <2>1. V!EndWithoutData \/ V!EndOfInput
    BY <1>3, SameWords DEF EndOfFile, P!EndWithoutData, V!EndWithoutData, P!EndOfInput, V!EndOfInput,
       P!Return, V!Return, P!header, V!header, P!schema, V!schema, P!table, V!table
  <2> QED
    BY <2>1 DEF V!Next, V!Progress
<1>4. CASE ReaderFails
  <2>1. V!ReadFails
    BY <1>4, SameWords DEF ReaderFails, P!ReadFails, V!ReadFails, P!Return, V!Return,
       P!header, V!header, P!schema, V!schema, P!table, V!table
  <2> QED
    BY <2>1 DEF V!Next
<1> QED
  BY <1>1, <1>2, <1>3, <1>4 DEF PipelineNext, ParseProgress, ReadChunk, EndOfLastLine, pipeline

(* A parse of a file is a parse of its lines.                              *)
THEOREM PipelineParses == PipelineSpec => V!Spec
<1>1. PipelineInit => V!Init
  BY SameWords DEF PipelineInit, P!Init, V!Init, V!Section, P!Section
<1> QED
  BY <1>1, SameNext, PipelineReaderInv, PTL DEF PipelineSpec, V!Spec

-----------------------------------------------------------------------------
(***************************************************************************)
(* The lines of the file, counted by their newlines.                       *)
(***************************************************************************)

NewlinePlaces(n) == {i \in 1..n : input[i] = LF}

(* The newlines among the first n bytes can be counted. *)
LEMMA NewlinesAreCounted ==
  ASSUME NEW n \in Nat
  PROVE  IsFiniteSet(NewlinePlaces(n)) /\ NewlinesIn(n) \in Nat
<1>1. IsFiniteSet(1..n)
  BY FS_Interval
<1>2. IsFiniteSet(NewlinePlaces(n))
  BY <1>1, FS_Subset DEF NewlinePlaces
<1> QED
  BY <1>2, FS_CardinalityType DEF NewlinesIn, NewlinePlaces

(* More bytes hold no fewer newlines. *)
LEMMA NewlinesGrow ==
  ASSUME NEW m \in Nat, NEW n \in Nat, m <= n
  PROVE  NewlinesIn(m) <= NewlinesIn(n)
<1>1. NewlinePlaces(m) \subseteq NewlinePlaces(n)
  BY DEF NewlinePlaces
<1> QED
  BY <1>1, NewlinesAreCounted, FS_Subset DEF NewlinesIn, NewlinePlaces

(* Bytes other than newlines do not count. *)
LEMMA NoNewlineBetween ==
  ASSUME NEW m \in Nat, NEW n \in Nat, m <= n, \A i \in (m + 1)..n : input[i] # LF
  PROVE  NewlinesIn(n) = NewlinesIn(m)
<1>1. NewlinePlaces(n) = NewlinePlaces(m)
  BY DEF NewlinePlaces
<1> QED
  BY <1>1 DEF NewlinesIn, NewlinePlaces

(* A newline counts one. *)
LEMMA NewlineHere ==
  ASSUME NEW n \in Nat, input[n + 1] = LF
  PROVE  NewlinesIn(n + 1) = NewlinesIn(n) + 1
<1>1. NewlinePlaces(n + 1) = NewlinePlaces(n) \cup {n + 1} /\ n + 1 \notin NewlinePlaces(n)
  BY DEF NewlinePlaces
<1>2. Cardinality(NewlinePlaces(n) \cup {n + 1}) = Cardinality(NewlinePlaces(n)) + 1
  BY <1>1, NewlinesAreCounted, FS_AddElement
<1> QED
  BY <1>1, <1>2 DEF NewlinesIn, NewlinePlaces

\* Line k + 1 of the file: the m bytes behind the first s.
IsLine(k, s, m) ==
  /\ NewlinesIn(s) = k /\ (s = 0 \/ input[s] = LF)
  /\ \A i \in (s + 1)..(s + m) : input[i] # LF
  /\ \/ s + m = Len(input)
     \/ s + m < Len(input) /\ input[s + m + 1] = LF

(* A line's places are between its two ends.                               *)
LEMMA PlacesOfLine ==
  ASSUME TypeOK, NEW k \in Nat, NEW s \in Nat, NEW m \in Nat, IsLine(k, s, m)
  PROVE  PlacesOf(k + 1) = (s + 1)..(s + m)
<1>1. Len(input) \in Nat /\ DOMAIN input = 1..Len(input) /\ s + m <= Len(input)
  BY DEF TypeOK, IsLine
<1>2. NewlinesIn(s) = k /\ k + 1 - 1 = k
  BY DEF IsLine
<1>3. ASSUME NEW i \in (s + 1)..(s + m)
      PROVE  i \in PlacesOf(k + 1)
  <2>1. i \in Nat /\ s <= i /\ i \in 1..Len(input) /\ input[i] # LF
        /\ \A j \in (s + 1)..i : input[j] # LF
    <3>1. i \in Nat /\ s <= i /\ i \in 1..Len(input)
      BY <1>1, <1>3
    <3>2. \A j \in (s + 1)..i : j \in (s + 1)..(s + m)
      BY <1>3
    <3>3. \A j \in (s + 1)..(s + m) : input[j] # LF
      BY DEF IsLine
    <3> QED
      BY <1>3, <3>1, <3>2, <3>3
  <2>2. NewlinesIn(i) = k
    BY <1>2, <2>1, NoNewlineBetween
  <2> QED
    BY <1>1, <1>2, <2>1, <2>2 DEF PlacesOf
<1>4. ASSUME NEW i \in PlacesOf(k + 1)
      PROVE  i \in (s + 1)..(s + m)
  <2>1. i \in 1..Len(input) /\ i \in Nat /\ input[i] # LF /\ NewlinesIn(i) = k
    BY <1>1, <1>2, <1>4 DEF PlacesOf
  <2>2. i > s
    <3> SUFFICES ASSUME i <= s PROVE FALSE
      BY <2>1
    <3>1. s # 0 /\ input[s] = LF /\ s - 1 \in Nat /\ (s - 1) + 1 = s /\ i <= s - 1
      BY <2>1 DEF IsLine
    <3>2. NewlinesIn(s) = NewlinesIn(s - 1) + 1
      <4> DEFINE p == s - 1
      <4>1. p \in Nat /\ p + 1 = s
        BY <3>1
      <4> HIDE DEF p
      <4>2. NewlinesIn(p + 1) = NewlinesIn(p) + 1
        BY <3>1, <4>1, NewlineHere
      <4>3. NewlinesIn(s) = NewlinesIn(p) + 1
        BY <4>1, <4>2
      <4> QED
        BY <4>3 DEF p
    <3>3. NewlinesIn(i) <= NewlinesIn(s - 1) /\ NewlinesIn(s - 1) \in Nat
      BY <2>1, <3>1, NewlinesGrow, NewlinesAreCounted
    <3> QED
      BY <1>2, <2>1, <3>2, <3>3
  <2>3. i <= s + m
    <3> SUFFICES ASSUME s + m < i PROVE FALSE
      BY <2>1
    <3>1. s + m + 1 <= i /\ s + m \in Nat /\ input[s + m + 1] = LF
      <4>1. PICK n \in Nat : n = Len(input)
        BY <1>1
      <4>2. i <= n /\ i \in Nat
        BY <2>1, <4>1
      <4>3. s + m + 1 <= i /\ s + m \in Nat /\ s + m # n
        BY <4>2
      <4> QED
        BY <4>1, <4>3 DEF IsLine
    <3>2. NewlinesIn(s + m + 1) = NewlinesIn(s + m) + 1
      <4> DEFINE p == s + m
      <4>1. p \in Nat /\ input[p + 1] = LF
        BY <3>1
      <4> HIDE DEF p
      <4>2. NewlinesIn(p + 1) = NewlinesIn(p) + 1
        BY <4>1, NewlineHere
      <4> QED
        BY <4>2 DEF p
    <3>3. NewlinesIn(s + m) = k
      BY <1>2, <3>1, NoNewlineBetween DEF IsLine
    <3>4. NewlinesIn(s + m + 1) <= NewlinesIn(i)
      BY <2>1, <3>1, NewlinesGrow
    <3> QED
      BY <2>1, <3>2, <3>3, <3>4
  <2> QED
    BY <1>1, <2>1, <2>2, <2>3
<1> QED
  BY <1>3, <1>4

(* A line found by its position is the line found by its number. *)
LEMMA LineBytesOfLine ==
  ASSUME TypeOK, NEW k \in Nat, NEW s \in Nat, NEW m \in Nat, IsLine(k, s, m)
  PROVE  /\ LineBytes(k + 1) = SubSeq(input, s + 1, s + m)
         /\ LineBytes(k + 1) \in Seq(LineByte) /\ Len(LineBytes(k + 1)) = m
<1>1. PlacesOf(k + 1) = (s + 1)..(s + m)
  BY PlacesOfLine
<1>2. input \in Seq(Byte) /\ s + m <= Len(input) /\ \A i \in (s + 1)..(s + m) : input[i] # LF
  BY DEF TypeOK, IsLine
<1>3. LineBytes(k + 1) = SubSeq(input, s + 1, s + m)
  <2>1. CASE m = 0
    BY <1>1, <1>2, <2>1 DEF LineBytes
  <2>2. CASE m # 0
    <3> DEFINE S == (s + 1)..(s + m)
    <3>1. s + 1 \in S /\ s + m \in S /\ S \in SUBSET Nat /\ S \in SUBSET (1..(s + m)) /\ S # {}
          /\ \A i \in S : s + 1 <= i /\ i <= s + m
      BY <2>2
    <3> HIDE DEF S
    <3>2. Min(S) \in S /\ \A i \in S : Min(S) <= i
      BY <3>1, MinOfNat
    <3>3. Max(S) \in S /\ \A i \in S : i <= Max(S)
      <4>1. s + m \in Nat
        OBVIOUS
      <4> QED
        BY <3>1, <4>1, MaxOfInterval
    <3>4. PICK lo \in Nat : lo = Min(S)
      BY <3>1, <3>2
    <3>5. PICK hi \in Nat : hi = Max(S)
      BY <3>1, <3>3
    <3>6. lo = s + 1 /\ hi = s + m
      BY <3>1, <3>2, <3>3, <3>4, <3>5
    <3>7. LineBytes(k + 1) = SubSeq(input, Min(S), Max(S))
      BY <1>1, <3>1 DEF LineBytes, S
    <3> QED
      BY <3>4, <3>5, <3>6, <3>7
  <2> QED
    BY <2>1, <2>2
<1>4. SubSeq(input, s + 1, s + m) \in Seq(LineByte) /\ Len(SubSeq(input, s + 1, s + m)) = m
  <2> DEFINE b == SubSeq(input, s + 1, s + m)
  <2>1. b \in Seq(Byte) /\ Len(b) = m /\ \A i \in 1..m : b[i] = input[s + i]
    BY <1>2
  <2> HIDE DEF b
  <2>2. \A i \in 1..m : s + i \in (s + 1)..(s + m)
    OBVIOUS
  <2>3. \A i \in 1..m : b[i] \in LineByte
    BY <1>2, <2>1, <2>2 DEF LineByte
  <2>4. b \in Seq(LineByte)
    BY <2>1, <2>3
  <2> QED
    BY <2>1, <2>4 DEF b
<1> QED
  BY <1>3, <1>4

-----------------------------------------------------------------------------
(***************************************************************************)
(* The parser is where the reader is: behind whole lines of the file.      *)
(***************************************************************************)

\* Line k of the file, as it was obtained and parsed.
ParsedAs(k) ==
  /\ lines[k] \in Taken
  /\ LineBytes(k) \in Seq(LineByte)
  /\ lines[k] = Physical!Classified(LineBytes(k))
  /\ consumed[k] = Classify(lines[k])

FileInv ==
  /\ line \in Nat /\ Len(lines) = line /\ Len(consumed) = line
  /\ OnlyWholeLinesAreParsed
  /\ StopsBehindItsLastLine
  /\ AnswersReadWholeFile
  /\ \A k \in 1..line : ParsedAs(k)
  /\ result = P!LineTooLong => line # 0 /\ lines[line] = Oversized

(* A step that leaves the lines taken alone leaves the invariant alone.    *)
LEMMA SameFile ==
  ASSUME UNCHANGED input
  PROVE  /\ FileLines' = FileLines
         /\ \A n : NewlinesIn(n)' = NewlinesIn(n)
         /\ \A k : LineBytes(k)' = LineBytes(k)
         /\ \A n, k : AreLines(n, k)' <=> AreLines(n, k)
<1>1. \A n : NewlinesIn(n)' = NewlinesIn(n)
  BY DEF NewlinesIn
<1>2. FileLines' = FileLines
  BY DEF FileLines, NewlinesIn
<1>3. \A k : LineBytes(k)' = LineBytes(k)
  BY DEF LineBytes, PlacesOf, NewlinesIn
<1>4. \A n, k : AreLines(n, k)' <=> AreLines(n, k)
  BY <1>1, <1>2 DEF AreLines
<1> QED
  BY <1>1, <1>2, <1>3, <1>4

(* Where a line was begun, the file's next line starts, unless there is    *)
(* none; the reader's line is that line.                                   *)
LEMMA LineEndedHere ==
  ASSUME TypeOK, NEW k \in Nat, AreLines(start, k), NEW m \in Nat, Holds(m), EndedAt(m)
  PROVE  /\ IsLine(k, start, m)
         /\ AreLines(pos, k + 1)
<1>1. input \in Seq(Byte) /\ Len(input) \in Nat /\ start \in Nat /\ pos \in Nat
      /\ start <= pos /\ pos <= Len(input)
  BY DEF TypeOK
<1>2. start < Len(input)
  BY <1>1 DEF EndedAt
<1>3. NewlinesIn(start) = k /\ (start = 0 \/ input[start] = LF)
  BY <1>1, <1>2 DEF AreLines
<1>4. \A i \in (start + 1)..(start + m) : input[i] # LF
  <2> TAKE i \in (start + 1)..(start + m)
  <2>1. i - start \in 1..m /\ start + (i - start) = i
    BY <1>1
  <2>2. \A j \in 1..m : input[start + j] # LF
    BY DEF Holds
  <2>3. input[start + (i - start)] # LF
    BY <2>1, <2>2
  <2> QED
    BY <2>1, <2>3
<1>5. NewlinesIn(start + m) = k
  BY <1>1, <1>3, <1>4, NoNewlineBetween
<1>6. CASE pos = start + m + 1 /\ input[pos] = LF
  <2> DEFINE n == start + m
  <2>1. n \in Nat /\ pos = n + 1 /\ NewlinesIn(n) = k /\ input[n + 1] = LF
    BY <1>1, <1>5, <1>6
  <2> HIDE DEF n
  <2>2. NewlinesIn(n + 1) = k + 1
    BY <2>1, NewlineHere
  <2>3. AreLines(pos, k + 1)
    BY <2>1, <2>2 DEF AreLines
  <2>4. start + m < Len(input) /\ input[start + m + 1] = LF
    BY <1>1, <1>6
  <2>5. IsLine(k, start, m)
    BY <1>3, <1>4, <2>4 DEF IsLine
  <2> QED
    BY <2>3, <2>5
<1>7. CASE pos = start + m /\ pos = Len(input) /\ m > 0
  <2>1. NewlinesIn(Len(input)) = k /\ input # <<>>
    BY <1>1, <1>2, <1>5, <1>7
  <2>2. Last(input) # LF
    <3>1. Len(input) \in (start + 1)..(start + m)
      BY <1>1, <1>7
    <3> QED
      BY <1>4, <3>1 DEF Last
  <2>3. FileLines = k + 1
    BY <2>1, <2>2 DEF FileLines
  <2>4. AreLines(pos, k + 1)
    BY <1>7, <2>3 DEF AreLines
  <2>5. IsLine(k, start, m)
    <3>1. \/ start + m = Len(input)
          \/ start + m < Len(input) /\ input[start + m + 1] = LF
      BY <1>7
    <3> QED
      BY <1>3, <1>4, <3>1 DEF IsLine
  <2> QED
    BY <2>4, <2>5
<1> QED
  BY <1>6, <1>7 DEF EndedAt

(* Only the end of the input ends a parse with an answer about all of it.  *)
LEMMA StepOutcome ==
  ASSUME NEW l, P!Step(l)
  PROVE  /\ result = P!Running
         /\ line' = line + 1 /\ consumed' = Append(consumed, l)
         /\ result' \notin {P!Ok, P!Fatal("MissingData")}
         /\ result' = P!LineTooLong => l.kind = "oversized"
<1>1. result = P!Running /\ line' = line + 1 /\ consumed' = Append(consumed, l)
  BY DEF P!Step, P!ReadLine, P!OversizedRecord, P!OversizedLine, P!BlankLine, P!NotUtf8Line,
     P!DataMarkerWithoutSchema, P!DataMarker, P!OtherMarker, P!CreatedText, P!PreambleText,
     P!ColumnNamesText, P!ChannelUnitsText, P!HeaderText, P!RecordOverLimit, P!AcceptRecord,
     P!OmitRecord, P!RejectRecord
<1>2. \/ result' = result
      \/ result' \in {P!Fatal("IssueLimit"), P!Fatal("InvalidUtf8"), P!Fatal("MissingColumnNames"),
                      P!Fatal("RowLimit")}
      \/ l.kind = "oversized" /\ result' = P!LineTooLong
      \/ \E text : ~P!ParsedRow(text).ok /\ result' = P!ParsedRow(text).error
  BY DEF P!Step, P!ReadLine, P!OversizedRecord, P!OversizedLine, P!BlankLine, P!NotUtf8Line,
     P!DataMarkerWithoutSchema, P!DataMarker, P!OtherMarker, P!CreatedText, P!PreambleText,
     P!ColumnNamesText, P!ChannelUnitsText, P!HeaderText, P!RecordOverLimit, P!AcceptRecord,
     P!OmitRecord, P!RejectRecord, P!PushIssue, P!Return
<1>3. \A text : ~P!ParsedRow(text).ok =>
        P!ParsedRow(text).error.tag \in {"WrongColumnCount", "InvalidNumber"}
  BY DEF P!ParsedRow, P!ParseRowInto, P!WrongColumnCount, P!InvalidNumber
<1>4. /\ P!Running.tag = "Running" /\ P!Ok.tag = "Ok" /\ P!LineTooLong.tag = "LineTooLong"
      /\ \A tag : P!Fatal(tag).tag = tag
  BY DEF P!Running, P!Ok, P!LineTooLong, P!Fatal
<1>5. \/ result'.tag \in {"Running", "IssueLimit", "InvalidUtf8", "MissingColumnNames", "RowLimit",
                          "WrongColumnCount", "InvalidNumber"}
      \/ l.kind = "oversized" /\ result'.tag = "LineTooLong"
  BY <1>1, <1>2, <1>3, <1>4
<1> QED
  BY <1>1, <1>4, <1>5

(* A line parsed is the file's next.                                       *)
LEMMA ParseLineKeepsFile ==
  ASSUME ReaderInv, FileInv, V!HistoryInv', ParseLine
  PROVE  FileInv'
<1>1. TypeOK /\ phase = "returned" /\ UNCHANGED <<input, limit, pos>> /\ start' = pos
  BY DEF ReaderInv, ParseLine, TakeLine
<1>2. PICK m \in 0..(pos - start) : Holds(m) /\ EndedAt(m)
  BY <1>1 DEF ReaderInv
<1>3. m \in Nat /\ line \in Nat /\ Len(lines) = line /\ Len(consumed) = line
      /\ lines \in Seq(Obtained) /\ start \in Nat /\ pos \in Nat
  BY <1>1, <1>2 DEF FileInv, TypeOK
<1>4. PICK c \in Taken : lines' = Append(lines, c) /\ Last(lines') = c
  BY TakenType DEF ParseLine
<1>5. P!Step(Classify(c))
  BY <1>4 DEF ParseLine
<1>6. /\ result = P!Running /\ line' = line + 1 /\ consumed' = Append(consumed, Classify(c))
      /\ result' \notin {P!Ok, P!Fatal("MissingData")}
      /\ result' = P!LineTooLong => c = Oversized
  BY <1>5, StepOutcome, ClassifyType
<1>7. IsLine(line, start, m) /\ AreLines(pos, line + 1)
  BY <1>1, <1>2, <1>3, LineEndedHere DEF FileInv, OnlyWholeLinesAreParsed
<1>8. LineBytes(line + 1) = SubSeq(input, start + 1, start + m) /\ LineBytes(line + 1) \in Seq(LineByte)
  BY <1>1, <1>3, <1>7, LineBytesOfLine
<1>9. c = Physical!Classified(LineBytes(line + 1))
  <2>1. m \in 0..(Len(input) - start)
    BY <1>1, <1>2 DEF TypeOK
  <2>2. lines' = Append(lines, Physical!Classified(SubSeq(input, start + 1, start + m)))
    BY <1>1, <1>2, <2>1, TakenIsClassified DEF ParseLine, TakeLine
  <2> DEFINE d == Physical!Classified(SubSeq(input, start + 1, start + m))
  <2>3. lines' = Append(lines, d)
    BY <2>2
  <2> HIDE DEF d
  <2>4. lines'[Len(lines) + 1] = d
    BY <1>3, <2>3
  <2>5. lines'[Len(lines) + 1] = c
    BY <1>3, <1>4
  <2> QED
    BY <1>8, <2>4, <2>5 DEF d
<1>10. Len(lines') = line + 1 /\ lines'[line + 1] = c /\ \A k \in 1..line : lines'[k] = lines[k]
  BY <1>3, <1>4
<1>11. Len(consumed') = line + 1
  BY <1>6 DEF V!HistoryInv
<1>12. consumed'[line + 1] = Classify(c) /\ \A k \in 1..line : consumed'[k] = consumed[k]
  BY <1>3, <1>6
<1>13. \A bytes : Physical!Classified(bytes)' = Physical!Classified(bytes)
  BY <1>1 DEF Physical!Classified
<1>14. \A k \in 1..(line + 1) : ParsedAs(k)'
  BY <1>1, <1>3, <1>4, <1>8, <1>9, <1>10, <1>12, <1>13, SameFile DEF FileInv, ParsedAs
<1>15. AreLines(start, line)' /\ AreLines(pos, line)'
  BY <1>1, <1>6, <1>7 DEF AreLines, NewlinesIn, FileLines
<1>16. OnlyWholeLinesAreParsed' /\ StopsBehindItsLastLine'
  BY <1>1, <1>15 DEF OnlyWholeLinesAreParsed, StopsBehindItsLastLine
<1>17. AnswersReadWholeFile'
  BY <1>6 DEF AnswersReadWholeFile
<1>18. \A k \in 1..line' : ParsedAs(k)'
  BY <1>6, <1>14
<1>19. result' = P!LineTooLong => line' # 0 /\ lines'[line'] = Oversized
  BY <1>3, <1>6, <1>10
<1> QED
  BY <1>3, <1>6, <1>10, <1>11, <1>16, <1>17, <1>18, <1>19 DEF FileInv

(* Nothing else takes a line, and the end of the file is behind its last.  *)
LEMMA FileNext == ReaderInv /\ FileInv /\ V!HistoryInv' /\ [PipelineNext]_pipeline => FileInv'
<1> SUFFICES ASSUME ReaderInv, FileInv, V!HistoryInv', [PipelineNext]_pipeline PROVE FileInv'
  OBVIOUS
<1>1. CASE ParseLine
  BY <1>1, ParseLineKeepsFile
<1>2. ASSUME UNCHANGED <<input, limit, start, lines, line, consumed>>
      PROVE  /\ OnlyWholeLinesAreParsed'
             /\ \A k \in 1..line' : ParsedAs(k)'
             /\ AreLines(start, line)' /\ FileLines' = FileLines
  <2>1. AreLines(start, line)' /\ FileLines' = FileLines
    BY <1>2 DEF FileInv, OnlyWholeLinesAreParsed, AreLines, NewlinesIn, FileLines
  <2>2. \A bytes : Physical!Classified(bytes)' = Physical!Classified(bytes)
    BY <1>2 DEF Physical!Classified
  <2>3. \A k \in 1..line' : ParsedAs(k)'
    BY <1>2, <2>2, SameFile DEF FileInv, ParsedAs
  <2> QED
    BY <2>1, <2>3 DEF OnlyWholeLinesAreParsed
<1>3. CASE ReadChunk \/ EndOfLastLine
  <2>1. UNCHANGED <<input, limit, start, lines, line, consumed, result>> /\ result = P!Running
    BY <1>3 DEF ReadChunk, EndOfLastLine, EndOfInput, Fill, FillToNewline, FillWithoutNewline, parser
  <2>2. P!Running \notin {P!Ok, P!Fatal("MissingData"), P!LineTooLong}
    BY DEF P!Running, P!Ok, P!Fatal, P!LineTooLong
  <2> QED
    BY <1>2, <2>1, <2>2 DEF FileInv, StopsBehindItsLastLine, AnswersReadWholeFile
<1>4. CASE ReaderFails
  <2>1. UNCHANGED <<input, limit, start, lines, line, consumed>> /\ result' = P!Fatal("Io")
    BY <1>4 DEF ReaderFails, ReadError, P!ReadFails, P!Return
  <2>2. P!Fatal("Io") \notin {P!Ok, P!Fatal("MissingData"), P!LineTooLong}
    BY DEF P!Ok, P!Fatal, P!LineTooLong
  <2> QED
    BY <1>2, <2>1, <2>2 DEF FileInv, StopsBehindItsLastLine, AnswersReadWholeFile
<1>5. CASE EndOfFile
  <2>1. UNCHANGED <<input, limit, pos, start, lines, line, consumed>>
        /\ result' \in {P!Ok, P!Fatal("MissingData")} /\ ~saw_line /\ phase = "reading"
        /\ pos = Len(input)
    BY <1>5 DEF EndOfFile, EndOfInput, P!EndWithoutData, P!EndOfInput, P!Return
  <2>2. start = Len(input) /\ start = pos
    <3>1. Holds(pos - start) /\ TypeOK
      BY <2>1 DEF ReaderInv
    <3>2. ~(pos - start > 0) /\ pos \in Nat /\ start \in Nat /\ start <= pos
      BY <2>1, <3>1 DEF Holds, TypeOK
    <3> QED
      BY <2>1, <3>2
  <2>3. line = FileLines
    <3>1. Len(input) \in Nat /\ line \in Nat /\ input \in Seq(Byte)
      BY DEF ReaderInv, TypeOK, FileInv
    <3>2. CASE line # FileLines
      <4>1. NewlinesIn(Len(input)) = line /\ (Len(input) = 0 \/ input[Len(input)] = LF)
        BY <2>2, <3>2 DEF FileInv, OnlyWholeLinesAreParsed, AreLines
      <4>2. input = <<>> \/ Last(input) = LF
        BY <3>1, <4>1 DEF Last
      <4>3. FileLines = line
        BY <3>1, <4>1, <4>2 DEF FileLines
      <4> QED
        BY <3>2, <4>3
    <3> QED
      BY <3>2
  <2>4. result' # P!LineTooLong
    BY <2>1 DEF P!Ok, P!Fatal, P!LineTooLong
  <2>5. AreLines(pos, line)'
    <3>1. AreLines(pos, line)
      BY <2>1, <2>2, <2>3 DEF AreLines
    <3> QED
      BY <2>1, <3>1 DEF AreLines, NewlinesIn, FileLines
  <2>6. StopsBehindItsLastLine' /\ AnswersReadWholeFile'
    BY <1>2, <2>1, <2>2, <2>3, <2>5 DEF StopsBehindItsLastLine, AnswersReadWholeFile
  <2> QED
    BY <1>2, <2>1, <2>4, <2>6 DEF FileInv
<1>6. CASE UNCHANGED pipeline
  <2>1. UNCHANGED <<input, limit, pos, start, lines, line, consumed, result>>
    BY <1>6 DEF pipeline, vars, parser
  <2>2. AreLines(pos, line)' <=> AreLines(pos, line)
    BY <2>1 DEF AreLines, NewlinesIn, FileLines
  <2>3. StopsBehindItsLastLine' /\ AnswersReadWholeFile'
    BY <1>2, <2>1, <2>2 DEF FileInv, StopsBehindItsLastLine, AnswersReadWholeFile
  <2> QED
    BY <1>2, <2>1, <2>3 DEF FileInv
<1> QED
  BY <1>1, <1>3, <1>4, <1>5, <1>6 DEF PipelineNext, ParseProgress

(* FileInv holds before the first byte. *)
LEMMA FileInit == PipelineInit => FileInv
<1> SUFFICES ASSUME PipelineInit PROVE FileInv
  OBVIOUS
<1>1. line = 0 /\ lines = <<>> /\ consumed = <<>> /\ start = 0 /\ result = P!Running
  BY DEF PipelineInit, Init, P!Init
<1>2. NewlinesIn(0) = 0
  <2>1. {i \in 1..0 : input[i] = LF} = {}
    OBVIOUS
  <2> QED
    BY <2>1, FS_EmptySet DEF NewlinesIn
<1>3. P!Running \notin {P!Ok, P!Fatal("MissingData"), P!LineTooLong}
  BY DEF P!Running, P!Ok, P!Fatal, P!LineTooLong
<1> QED
  BY <1>1, <1>2, <1>3 DEF FileInv, OnlyWholeLinesAreParsed, AreLines, StopsBehindItsLastLine,
     AnswersReadWholeFile

(* FileInv holds throughout. *)
LEMMA FileCorrect == PipelineSpec => []FileInv
<1>1. V!Spec => []V!HistoryInv
  BY ParserAssumptionHolds, V!HistoryCorrect
<1> QED
  BY <1>1, FileInit, FileNext, PipelineParses, PipelineReaderInv, PTL DEF PipelineSpec

(* The parser never sees a part of a line: when the reader fails inside    *)
(* one, for whatever file and chunks, what was read of it is dropped.      *)
THEOREM WholeLinesOnly == PipelineSpec => []OnlyWholeLinesAreParsed
<1>1. FileInv => OnlyWholeLinesAreParsed
  BY DEF FileInv
<1> QED
  BY <1>1, FileCorrect, PTL

(* A parse leaves its caller's reader just behind the line it stopped at.  *)
THEOREM ReaderIsLeftBehindTheLine == PipelineSpec => []StopsBehindItsLastLine
<1>1. FileInv => StopsBehindItsLastLine
  BY DEF FileInv
<1> QED
  BY <1>1, FileCorrect, PTL

(* An answer other than an error about a line is about the whole file, its *)
(* last line, terminated or not, included.                                 *)
THEOREM AnswersAreComplete == PipelineSpec => []AnswersReadWholeFile
<1>1. FileInv => AnswersReadWholeFile
  BY DEF FileInv
<1> QED
  BY <1>1, FileCorrect, PTL

(* A line is parsed as oversized exactly when its content is too long, and *)
(* as a text only with the fields of its bytes.                            *)
LEMMA ParsedAsItIs ==
  ASSUME ReaderInv, NEW k, ParsedAs(k)
  PROVE  /\ consumed[k].kind = "oversized" <=> IsOverlong(k)
         /\ lines[k] = Oversized <=> IsOverlong(k)
         /\ consumed[k].kind = "text" => consumed[k].text = Fields(LineBytes(k)) /\ ~IsOverlong(k)
<1>1. PICK c \in Taken : c = lines[k] /\ consumed[k] = Classify(c)
  BY DEF ParsedAs
<1>2. PICK bytes \in Seq(LineByte) : bytes = LineBytes(k)
  BY DEF ParsedAs
<1>3. c = IF Len(StripCR(bytes)) > limit THEN Oversized ELSE Content(StripCR(bytes))
  BY <1>1, <1>2 DEF ParsedAs, Physical!Classified, Physical!StripCR, StripCR, Physical!CR, CR,
     Physical!Oversized, Oversized, Physical!Content, Content
<1>4. c = Oversized <=> IsOverlong(k)
  <2>1. Content(StripCR(bytes)).oversized = FALSE /\ Oversized.oversized = TRUE
    BY DEF Content, Oversized
  <2> QED
    BY <1>2, <1>3, <2>1 DEF IsOverlong
<1>5. ~IsOverlong(k) => Fields(c.bytes) = Fields(LineBytes(k))
  <2>1. Content(StripCR(bytes)).bytes = StripCR(bytes)
    BY DEF Content
  <2> QED
    BY <1>2, <1>3, <2>1, FieldsStripCR DEF IsOverlong
<1> QED
  BY <1>1, <1>4, <1>5, ClassifyType

(* A line the parser calls a record, and how it judged it.                 *)
LEMMA RecordOfFile ==
  ASSUME ReaderInv, NEW k, ParsedAs(k), V!IsRecord(k)
  PROVE  /\ V!IsWholeRow(k) => consumed[k].text = Fields(LineBytes(k)) /\ ~IsOverlong(k)
         /\ V!Defect(k) = P!LineTooLong <=> IsOverlong(k)
<1>1. consumed[k].kind \in {"text", "oversized"}
  BY DEF V!IsRecord
<1>2. V!IsWholeRow(k) => consumed[k].kind = "text"
  BY DEF V!IsWholeRow, V!IsText
<1>3. V!Defect(k) = P!LineTooLong <=> consumed[k].kind # "text"
  BY DEF V!Defect, V!IsText, V!LineTooLong, P!LineTooLong, V!WrongColumnCount, V!InvalidNumber
<1> QED
  BY <1>1, <1>2, <1>3, ParsedAsItIs

(* Blank lines, CRLF, a missing final newline and chunk boundaries shift   *)
(* nothing: rows and diagnostics name the file's lines, carry the fields   *)
(* of exactly those bytes, and say "too long" of exactly the lines that    *)
(* are.                                                                    *)
THEOREM ReportsAreTrueOfTheFile == PipelineSpec => []ReportsMatchFile
<1>1. ReaderInv /\ FileInv /\ V!RowsInv /\ V!IssuesInv => ReportsMatchFile
  <2> SUFFICES ASSUME ReaderInv, FileInv, V!RowsInv, V!IssuesInv PROVE ReportsMatchFile
    OBVIOUS
  <2>1. line \in Nat /\ \A k \in 1..line : ParsedAs(k)
    BY DEF FileInv
  <2>2. ASSUME NEW i \in DOMAIN delivered
        PROVE  /\ delivered[i].values = Fields(LineBytes(delivered[i].line))
               /\ ~IsOverlong(delivered[i].line)
    <3>1. PICK k \in 1..line : delivered[i].line = k
      BY DEF V!RowsInv, V!Read
    <3>2. V!IsRecord(k) /\ V!IsWholeRow(k) /\ delivered[i].values = consumed[k].text
      BY <3>1 DEF V!RowsInv, V!Read
    <3> QED
      BY <2>1, <3>1, <3>2, RecordOfFile
  <2>3. ASSUME NEW i \in DOMAIN issues
        PROVE  issues[i].kind = P!LineTooLong <=> IsOverlong(issues[i].line)
    <3>1. PICK k \in 1..line : issues[i].line = k
      BY DEF V!IssuesInv, V!Read
    <3>2. V!IsRecord(k) /\ issues[i].kind = V!Defect(k)
      BY <3>1 DEF V!IssuesInv, V!Read
    <3> QED
      BY <2>1, <3>1, <3>2, RecordOfFile
  <2>4. result = P!LineTooLong => IsOverlong(line)
    <3> SUFFICES ASSUME result = P!LineTooLong PROVE IsOverlong(line)
      OBVIOUS
    <3>1. line \in 1..line /\ lines[line] = Oversized
      BY <2>1 DEF FileInv
    <3> QED
      BY <2>1, <3>1, ParsedAsItIs
  <2> QED
    BY <2>2, <2>3, <2>4 DEF ReportsMatchFile
<1>2. V!Spec => []V!RowsInv
  BY ParserAssumptionHolds, V!RowsCorrect
<1>3. V!Spec => []V!IssuesInv
  BY ParserAssumptionHolds, V!IssuesCorrect
<1> QED
  BY <1>1, <1>2, <1>3, FileCorrect, PipelineReaderInv, PipelineParses, PTL
-----------------------------------------------------------------------------
(***************************************************************************)
(* How long a parse takes.  The last call needs no byte: it sees the end.  *)
(***************************************************************************)

(* What is left shrinks by what is read.                                   *)
LEMMA ReadSome ==
  ASSUME NEW all \in Nat, NEW from \in Nat, NEW size \in 1..(all - from),
         NEW to \in (from + 1)..(from + size)
  PROVE  to - from \in 1..(all - from) /\ all - to = (all - from) - (to - from)
OBVIOUS

(* A chunk brings the end nearer by the bytes of it that are consumed.     *)
LEMMA FillProgresses ==
  ASSUME TypeOK, NEW n \in 1..(Len(input) - pos), Fill(n)
  PROVE  StepsLeft' \in 0..(StepsLeft - 1)
<1>1. /\ input' = input /\ pos' \in (pos + 1)..(pos + n)
      /\ phase = "reading" /\ phase' \in {"reading", "returned"}
  BY DEF Fill, FillToNewline, FillWithoutNewline, TypeOK
<1>2. PICK left \in Nat : Len(input) - pos = left
  <2>1. Len(input) - pos \in Nat
    BY DEF TypeOK
  <2> QED
    BY <2>1
<1>3. PICK read \in 1..left : Len(input') - pos' = left - read
  <2>1. PICK all \in Nat : all = Len(input) /\ all = Len(input')
    BY <1>1 DEF TypeOK
  <2>2. pos \in Nat /\ pos <= all /\ n \in 1..(all - pos)
    BY <2>1 DEF TypeOK
  <2>3. all - pos = left /\ pos' \in (pos + 1)..(pos + n)
    BY <1>1, <1>2, <2>1
  <2>4. pos' - pos \in 1..left /\ all - pos' = left - (pos' - pos)
    BY <2>2, <2>3, ReadSome
  <2> QED
    BY <2>1, <2>4
<1>4. PICK rank \in {1, 3} : StepsLeft = 3 * left + rank
  <2>1. CASE saw_line
    BY <1>1, <1>2, <2>1 DEF StepsLeft
  <2>2. CASE ~saw_line
    BY <1>1, <1>2, <2>2 DEF StepsLeft
  <2> QED
    BY <2>1, <2>2
<1>5. PICK next \in 1..3 : StepsLeft' = 3 * (left - read) + next
  <2>1. CASE phase' = "returned"
    BY <1>3, <2>1 DEF StepsLeft
  <2>2. CASE phase' = "reading" /\ saw_line'
    BY <1>3, <2>2 DEF StepsLeft
  <2>3. CASE phase' = "reading" /\ ~saw_line'
    BY <1>3, <2>3 DEF StepsLeft
  <2> QED
    BY <1>1, <2>1, <2>2, <2>3
<1> QED
  BY <1>4, <1>5

(* Every iteration of the parser's loop, and of the reader's inside it,    *)
(* uses up one of finitely many steps: whatever the bytes, the chunks and  *)
(* the limits, neither loop spins.                                         *)
THEOREM ParsingProgresses == PipelineSpec => EveryStepProgresses
<1>1. ASSUME ReaderInv, ParseProgress
      PROVE  StepsLeft' \in 0..(StepsLeft - 1)
  <2>1. TypeOK
    BY <1>1 DEF ReaderInv
  <2>2. PICK left \in Nat : Len(input) - pos = left
    <3>1. Len(input) - pos \in Nat
      BY <2>1 DEF TypeOK
    <3> QED
      BY <3>1
  <2>3. CASE ReadChunk
    BY <2>1, <2>3, FillProgresses DEF ReadChunk
  <2>4. CASE EndOfLastLine
    <3>1. StepsLeft = 3 * left + 3 /\ StepsLeft' = 3 * left + 2
      BY <2>2, <2>4 DEF EndOfLastLine, EndOfInput, StepsLeft
    <3> QED
      BY <3>1
  <2>5. CASE ParseLine
    <3>1. StepsLeft = 3 * left + 2 /\ StepsLeft' = 3 * left + 1
      BY <2>2, <2>5 DEF ParseLine, TakeLine, StepsLeft
    <3> QED
      BY <3>1
  <2>6. CASE EndOfFile
    <3>1. StepsLeft = 3 * left + 1 /\ StepsLeft' = 3 * left
      BY <2>2, <2>6 DEF EndOfFile, EndOfInput, StepsLeft
    <3> QED
      BY <3>1
  <2> QED
    BY <1>1, <2>3, <2>4, <2>5, <2>6 DEF ParseProgress
<1> QED
  BY <1>1, PipelineReaderInv, PTL DEF PipelineSpec, EveryStepProgresses
=============================================================================
