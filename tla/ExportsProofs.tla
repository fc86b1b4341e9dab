---------------------------- MODULE ExportsProofs ----------------------------
(***************************************************************************)
(* What a destination accepted is a prefix of what was produced, and all   *)
(* of it on success; and what is produced by then is the whole recording   *)
(* in the order of its format: for any recording, any row group size and   *)
(* any way the encoders buffer.                                            *)
(*                                                                         *)
(* The tokens given to an encoder are described by what holds of every     *)
(* stretch of them, and each description is shown to survive the joining   *)
(* of two stretches; a step then only has to describe what it adds.        *)
(***************************************************************************)
EXTENDS Exports, BasicLemmas, SequenceTheorems, TLAPS

IsSequence(s) == \E T : s \in Seq(T)

-----------------------------------------------------------------------------
(* Concatenations are sequences.                                           *)
LEMMA ConcatIsSequence ==
  ASSUME NEW s, NEW t, IsSequence(s), IsSequence(t)
  PROVE  \E T : s \in Seq(T) /\ t \in Seq(T) /\ s \o t \in Seq(T)
<1>1. PICK S : s \in Seq(S)  BY DEF IsSequence
<1>2. PICK T : t \in Seq(T)  BY DEF IsSequence
<1>3. s \in Seq(S \cup T) /\ t \in Seq(S \cup T)  BY <1>1, <1>2
<1>4. s \o t \in Seq(S \cup T)  BY <1>3
<1> QED  BY <1>3, <1>4

\* a and b are the first n elements and the k others.
Splits(all, a, b, n, k) ==
  /\ Len(a) = n /\ Len(b) = k /\ Len(all) = n + k
  /\ \A i \in 1..n : a[i] = all[i]
  /\ \A i \in 1..k : b[i] = all[n + i]

(* A sequence is the concatenation of its first n elements and the rest.   *)
LEMMA PartsMakeTheWhole ==
  ASSUME NEW T, NEW all \in Seq(T), NEW a \in Seq(T), NEW b \in Seq(T), NEW n \in Nat, NEW k \in Nat,
         Splits(all, a, b, n, k)
  PROVE  all = a \o b
<1> USE DEF Splits
<1>2. /\ a \o b \in Seq(T) /\ Len(a \o b) = n + k
      /\ \A i \in 1..(n + k) : (a \o b)[i] = IF i <= n THEN a[i] ELSE b[i - n]
  BY ConcatProperties
<1>3. PICK whole \in Seq(T) : whole = a \o b
  BY <1>2
<1>4. ASSUME NEW i \in 1..(n + k) PROVE all[i] = whole[i]
  <2>1. CASE i <= n
    BY <1>2, <1>3, <2>1
  <2>2. CASE ~(i <= n)
    <3>1. PICK j \in 1..k : i = n + j /\ j = i - n
      BY <2>2
    <3>2. whole[i] = b[j]
      BY <1>2, <1>3, <2>2, <3>1
    <3>3. b[j] = all[n + j]
      BY <3>1
    <3> QED
      BY <3>1, <3>2, <3>3
  <2> QED
    BY <2>1, <2>2
<1>5. Len(whole) = Len(all)
  BY <1>2, <1>3
<1> QED
  BY <1>3, <1>4, <1>5, SeqEqual

(* The parts of what is handed over, behind what was written before.       *)
LEMMA SplitFacts ==
  ASSUME NEW T, NEW w \in Seq(T), NEW all \in Seq(T), NEW n \in 0..Len(all)
  PROVE  /\ w \o SubSeq(all, 1, n) \in Seq(T)
         /\ SubSeq(all, n + 1, Len(all)) \in Seq(T)
         /\ (w \o SubSeq(all, 1, n)) \o SubSeq(all, n + 1, Len(all)) = w \o all
         /\ IsPrefix(w \o SubSeq(all, 1, n), w \o all)
<1>1. SubSeq(all, 1, n) \in Seq(T) /\ Len(SubSeq(all, 1, n)) = n
      /\ \A i \in 1..n : SubSeq(all, 1, n)[i] = all[i]
  OBVIOUS
<1>2. SubSeq(all, n + 1, Len(all)) \in Seq(T) /\ Len(SubSeq(all, n + 1, Len(all))) = Len(all) - n
      /\ \A i \in 1..(Len(all) - n) : SubSeq(all, n + 1, Len(all))[i] = all[n + i]
  OBVIOUS
<1>3. PICK a, b : a = SubSeq(all, 1, n) /\ b = SubSeq(all, n + 1, Len(all))
  OBVIOUS
<1>5. a \in Seq(T) /\ b \in Seq(T)
  BY <1>1, <1>2, <1>3
<1>4. all = a \o b
  <2>0. PICK m \in Nat : m = Len(all) /\ n \in Nat /\ n <= m
    OBVIOUS
  <2>1. PICK k \in Nat : k = m - n /\ m = n + k
    <3>1. m - n \in Nat /\ m = n + (m - n)
      BY <2>0
    <3> QED
      BY <3>1
  <2>2. Len(a) = n /\ Len(b) = k
    BY <1>1, <1>2, <1>3, <2>0, <2>1
  <2>3. \A i \in 1..n : a[i] = all[i]
    BY <1>1, <1>3
  <2>4. \A i \in 1..k : b[i] = all[n + i]
    BY <1>2, <1>3, <2>0, <2>1
  <2>5. Splits(all, a, b, n, k) /\ n \in Nat
    BY <2>0, <2>1, <2>2, <2>3, <2>4 DEF Splits
  <2> QED
    BY <1>5, <2>5, PartsMakeTheWhole, Zenon
<1>6. w \o a \in Seq(T) /\ (w \o a) \o b = w \o all
  BY <1>4, <1>5
<1>7. IsPrefix(w \o a, w \o all)
  <2>0. w \o a \in Seq(T) /\ w \o all \in Seq(T)
    BY <1>6
  <2>1. PICK u \in Seq(T), v \in Seq(T) : u = w \o a /\ v = w \o all
    BY <2>0
  <2>2. v = u \o b
    BY <1>6, <2>1
  <2>3. Len(u) <= Len(v) /\ \A i \in 1..Len(u) : u[i] = v[i]
    BY <1>5, <2>1, <2>2
  <2>4. SubSeq(u, 1, Len(u)) = SubSeq(v, 1, Len(u))
    BY <2>1, <2>3
  <2> QED
    BY <2>1, <2>3, <2>4 DEF IsPrefix
<1> QED
  BY <1>2, <1>3, <1>6, <1>7

-----------------------------------------------------------------------------
(* Buffer and output are sequences, and together what was produced.        *)
OutInv ==
  /\ IsSequence(buffer) /\ IsSequence(written) /\ IsSequence(emitted)
  /\ OutputIsWholeOrFails

(* One call of an encoder keeps the output a prefix.                       *)
LEMMA EmitKeepsOutput ==
  ASSUME OutInv, NEW tokens, IsSequence(tokens), Emit(tokens)
  PROVE  OutInv'
<1>1. result = None /\ emitted' = emitted \o tokens /\ written \o buffer = emitted
  BY DEF Emit, OutInv, OutputIsWholeOrFails
<1>2. PICK T : written \in Seq(T) /\ buffer \in Seq(T) /\ tokens \in Seq(T)
  <2>1. PICK R : written \in Seq(R)  BY DEF OutInv, IsSequence
  <2>2. PICK S : buffer \in Seq(S)  BY DEF OutInv, IsSequence
  <2>3. PICK T : tokens \in Seq(T)  BY DEF IsSequence
  <2>4. /\ written \in Seq(R \cup S \cup T) /\ buffer \in Seq(R \cup S \cup T)
        /\ tokens \in Seq(R \cup S \cup T)
    BY <2>1, <2>2, <2>3, SeqMonotonic
  <2> QED  BY <2>4
<1>10. (written \o buffer) \o tokens = written \o (buffer \o tokens)
  BY ONLY <1>2, ConcatAssociative
<1>3. PICK all \in Seq(T) : all = buffer \o tokens
  <2>1. buffer \o tokens \in Seq(T)
    BY <1>2, ConcatProperties
  <2> QED
    BY <2>1
<1>4. emitted' = written \o all
  BY <1>1, <1>3, <1>10, Zenon
<1>5. IsSequence(emitted')
  <2>1. written \o all \in Seq(T)
    BY <1>2, ConcatProperties
  <2> QED
    BY <1>4, <2>1 DEF IsSequence
<1>6. PICK n \in 0..Len(all) : HandOver(all, n)
  <2>1. \E n \in IF Buffered THEN 0..Len(all) ELSE {Len(all)} : HandOver(all, n)
    BY <1>3 DEF Emit
  <2>2. Len(all) \in 0..Len(all)
    OBVIOUS
  <2> QED
    BY <2>1, <2>2
<1>7. CASE /\ written' = written \o SubSeq(all, 1, n)
           /\ buffer' = SubSeq(all, n + 1, Len(all))
           /\ UNCHANGED result
  <2>1. /\ written' \in Seq(T) /\ buffer' \in Seq(T) /\ written' \o buffer' = emitted'
        /\ IsPrefix(written', emitted')
    BY <1>2, <1>4, <1>7, SplitFacts
  <2>2. IsSequence(written') /\ IsSequence(buffer')
    BY <2>1 DEF IsSequence
  <2>3. result' # "Ok"
    BY <1>1, <1>7, ExportAssumption
  <2> QED
    BY <1>5, <2>1, <2>2, <2>3 DEF OutInv, OutputIsWholeOrFails
<1>8. CASE \E k \in 0..(n - 1) :
             /\ written' = written \o SubSeq(all, 1, k)
             /\ buffer' = <<>>
             /\ result' = "Io"
  <2>1. PICK k \in 0..Len(all) :
          written' = written \o SubSeq(all, 1, k) /\ buffer' = <<>> /\ result' = "Io"
    <3>1. \A k \in 0..(n - 1) : k \in 0..Len(all)
      OBVIOUS
    <3> QED
      BY <1>8, <3>1, Zenon
  <2>2. written' \in Seq(T) /\ IsPrefix(written', emitted')
    BY <1>2, <1>4, <2>1, SplitFacts
  <2>3. buffer' \in Seq(T)
    BY <2>1
  <2>4. IsSequence(written') /\ IsSequence(buffer')
    BY <2>2, <2>3 DEF IsSequence
  <2>5. result' # "Ok" /\ result' # None
    BY <2>1, ExportAssumption
  <2> QED
    BY <1>5, <2>2, <2>4, <2>5 DEF OutInv, OutputIsWholeOrFails
<1> QED
  BY <1>6, <1>7, <1>8 DEF HandOver

(* The last call keeps the output a prefix, and makes it whole on success. *)
LEMMA CloseKeepsOutput ==
  ASSUME OutInv, NEW tokens, IsSequence(tokens), Close(tokens)
  PROVE  OutInv'
<1>1. result = None /\ emitted' = emitted \o tokens /\ written \o buffer = emitted /\ buffer' = <<>>
  BY DEF Close, OutInv, OutputIsWholeOrFails
<1>2. PICK T : written \in Seq(T) /\ buffer \in Seq(T) /\ tokens \in Seq(T)
  <2>1. PICK R : written \in Seq(R)  BY DEF OutInv, IsSequence
  <2>2. PICK S : buffer \in Seq(S)  BY DEF OutInv, IsSequence
  <2>3. PICK T : tokens \in Seq(T)  BY DEF IsSequence
  <2>4. /\ written \in Seq(R \cup S \cup T) /\ buffer \in Seq(R \cup S \cup T)
        /\ tokens \in Seq(R \cup S \cup T)
    BY <2>1, <2>2, <2>3, SeqMonotonic
  <2> QED  BY <2>4
<1>10. (written \o buffer) \o tokens = written \o (buffer \o tokens)
  BY ONLY <1>2, ConcatAssociative
<1>3. PICK all \in Seq(T) : all = buffer \o tokens
  <2>1. buffer \o tokens \in Seq(T)
    BY <1>2, ConcatProperties
  <2> QED
    BY <2>1
<1>4. emitted' = written \o all
  BY <1>1, <1>3, <1>10, Zenon
<1>5. emitted' \in Seq(T)
  <2>1. written \o all \in Seq(T)
    BY <1>2, ConcatProperties
  <2> QED
    BY <1>4, <2>1
<1>6. IsSequence(buffer') /\ IsSequence(emitted')
  <2>1. buffer' \in Seq(T)
    BY <1>1
  <2> QED
    BY <1>5, <2>1 DEF IsSequence
<1>7. CASE written' = written \o all /\ result' = "Ok"
  <2>1. written' = emitted' /\ IsSequence(written') /\ result' # None
    BY <1>4, <1>6, <1>7, ExportAssumption
  <2>2. PICK u \in Seq(T) : u = emitted'
    BY <1>5
  <2>3. IsPrefix(u, u)
    BY DEF IsPrefix
  <2> QED
    BY <1>6, <2>1, <2>2, <2>3 DEF OutInv, OutputIsWholeOrFails
<1>8. CASE \E k \in 0..Len(all) : written' = written \o SubSeq(all, 1, k) /\ result' = "Io"
  <2>1. PICK k \in 0..Len(all) : written' = written \o SubSeq(all, 1, k) /\ result' = "Io"
    BY <1>8
  <2>2. written' \in Seq(T) /\ IsPrefix(written', emitted')
    BY <1>2, <1>4, <2>1, SplitFacts
  <2>3. IsSequence(written')
    BY <2>2 DEF IsSequence
  <2>4. result' # "Ok" /\ result' # None
    BY <2>1, ExportAssumption
  <2> QED
    BY <1>6, <2>2, <2>3, <2>4 DEF OutInv, OutputIsWholeOrFails
<1> QED
  BY <1>3, <1>7, <1>8 DEF Close

-----------------------------------------------------------------------------
(* What the recording and the place in it are.                             *)
Place ==
  /\ width \in Nat /\ rows \in Nat /\ row \in Nat
  /\ created \in Creations \cup {None}

(* What an export gives the encoder is a sequence.                         *)
LEMMA RecordIsSequence ==
  ASSUME Place, NEW r
  PROVE  IsSequence(Record(r)) /\ IsSequence(Names)
<1>1. PICK w \in Nat : w = width
  BY DEF Place
<1>2. PICK S : S = {Value(r * width + c - 1) : c \in 1..w}
  OBVIOUS
<1>3. Record(r) = [c \in 1..w |-> Value(r * width + c - 1)]
  BY <1>1 DEF Record
<1>4. Record(r) \in [1..w -> S]
  BY <1>2, <1>3, Zenon
<1>5. PICK T : T = {[tag |-> "channel", column |-> c - 1] : c \in 1..w}
  OBVIOUS
<1>6. Names = [c \in 1..w |-> [tag |-> "channel", column |-> c - 1]]
  BY <1>1 DEF Names
<1>7. Names \in [1..w -> T]
  BY <1>5, <1>6, Zenon
<1>8. Record(r) \in Seq(S) /\ Names \in Seq(T)
  BY <1>4, <1>7
<1> QED
  BY <1>8 DEF IsSequence

(* A fixed part, a point and a time are sequences.                         *)
LEMMA FixedIsSequence ==
  ASSUME NEW part, NEW r
  PROVE  IsSequence(Fixed(part)) /\ IsSequence(Point(r)) /\ IsSequence(Time(r)) /\ IsSequence(<<>>)
<1>1. Fixed(part) \in Seq({[tag |-> part]})
  BY DEF Fixed
<1>2. Point(r) \in Seq({[tag |-> "trkpt", row |-> r]})
  BY DEF Point
<1>3. Time(r) \in Seq({[tag |-> "time", row |-> r]})
  BY DEF Time
<1>4. <<>> \in Seq({})
  OBVIOUS
<1> QED
  BY <1>1, <1>2, <1>3, <1>4 DEF IsSequence

(* An escaped name is a sequence.                                          *)
LEMMA EscapeIsSequence ==
  ASSUME Place, created # None
  PROVE  IsSequence(EscapeXml(created))
<1>1. created \in Seq(Markup \cup Plain)
  BY ExportAssumption DEF Place
<1>2. PICK n \in Nat : n = Len(created) /\ DOMAIN created = 1..n
  BY <1>1
<1>3. EscapeXml(created) \in
        Seq({[tag |-> IF created[i] \in Markup THEN "entity" ELSE "text", char |-> created[i]] :
               i \in 1..n})
  BY <1>2 DEF EscapeXml
<1> QED
  BY <1>3 DEF IsSequence

(* Concatenation makes a sequence of two.                                  *)
LEMMA ConcatStaysSequence ==
  ASSUME NEW s, NEW t, IsSequence(s), IsSequence(t)
  PROVE  IsSequence(s \o t)
BY ConcatIsSequence DEF IsSequence

(* The head of a track is a sequence, with or without a name.              *)
LEMMA SegmentIsSequence ==
  ASSUME Place
  PROVE  IsSequence((IF created = None THEN <<>>
                     ELSE Fixed("name") \o EscapeXml(created) \o Fixed("end of name"))
                     \o Fixed("trkseg"))
<1>1. IsSequence(IF created = None THEN <<>>
                 ELSE Fixed("name") \o EscapeXml(created) \o Fixed("end of name"))
  <2>1. CASE created = None
    BY <2>1, FixedIsSequence
  <2>2. CASE created # None
    <3>1. IsSequence(EscapeXml(created))
      BY <2>2, EscapeIsSequence
    <3>2. IsSequence(Fixed("name") \o EscapeXml(created))
      BY <3>1, FixedIsSequence, ConcatStaysSequence
    <3>3. IsSequence(Fixed("name") \o EscapeXml(created) \o Fixed("end of name"))
      BY <3>2, FixedIsSequence, ConcatStaysSequence
    <3> QED
      BY <2>2, <3>3
  <2> QED
    BY <2>1, <2>2
<1> QED
  BY <1>1, FixedIsSequence, ConcatStaysSequence

(* A chunk and its cells are a sequence.                                   *)
LEMMA ChunkIsSequence ==
  ASSUME Place, row < rows
  PROVE  IsSequence(<<[tag |-> "chunk", column |-> column, length |-> GroupRows(row)]>>
                      \o [i \in 1..GroupRows(row) |-> Value((row + i - 1) * width + column)])
<1>1. PICK n \in Nat : n = GroupRows(row)
  <2>1. rows - row \in Nat /\ GroupSize \in Nat
    BY ExportAssumption DEF Place
  <2>2. GroupRows(row) \in Nat
    BY <2>1 DEF GroupRows
  <2> QED
    BY <2>2
<1>2. PICK S, cells : /\ S = {Value((row + i - 1) * width + column) : i \in 1..n}
                      /\ cells = [i \in 1..n |-> Value((row + i - 1) * width + column)]
  OBVIOUS
<1>3. cells \in [1..n -> S]
  BY <1>2, Zenon
<1>4. IsSequence(cells)
  <2>1. cells \in Seq(S)
    BY <1>3
  <2> QED
    BY <2>1 DEF IsSequence
<1>5. PICK head : head = [tag |-> "chunk", column |-> column, length |-> GroupRows(row)]
  OBVIOUS
<1>6. <<head>> \in Seq({head})
  OBVIOUS
<1>7. IsSequence(<<head>>)
  BY <1>6 DEF IsSequence
<1>8. IsSequence(<<head>> \o cells)
  BY <1>4, <1>7, ConcatStaysSequence
<1> QED
  BY <1>1, <1>2, <1>5, <1>8

(* Every step keeps the place.                                             *)
LEMMA PlaceStep ==
  ASSUME Place, [Next]_vars
  PROVE  Place'
<1>1. CASE \/ NoChannels \/ NoTrackPoints \/ UNCHANGED vars
  BY <1>1 DEF NoChannels, NoTrackPoints, Refuse, vars, recording, Place
<1>2. CASE \/ CsvHeader \/ CsvFlush \/ GpxPreamble \/ GpxSegment \/ GpxFooter
           \/ ParquetOpen \/ ParquetClose \/ SerdeFields \/ SerdeEnd
  <2>1. UNCHANGED <<width, rows, row, created>>
    BY <1>2 DEF CsvHeader, CsvFlush, GpxPreamble, GpxSegment, GpxFooter, ParquetOpen,
       ParquetClose, SerdeFields, SerdeEnd, Emit, Close, recording
  <2> QED
    BY <2>1 DEF Place
<1>3. CASE CsvRecord \/ GpxPoint \/ ParquetColumn \/ SerdeElement
  <2>1. UNCHANGED <<width, rows, created>> /\ row' \in {row, row + 1, row + GroupSize}
    BY <1>3 DEF CsvRecord, GpxPoint, ParquetColumn, SerdeElement, Emit, recording
  <2> QED
    BY <2>1, ExportAssumption DEF Place
<1> QED
  BY <1>1, <1>2, <1>3 DEF Next

(* Every step keeps the output a prefix of what was produced.              *)
LEMMA OutStep ==
  ASSUME Place, OutInv, [Next]_vars
  PROVE  OutInv'
<1>1. ASSUME NEW error, error \in {"NoChannels", "NoTrackPoints"}, Refuse(error)
      PROVE  OutInv'
  <2>1. UNCHANGED <<buffer, written, emitted>> /\ result' = error /\ result = None
    BY <1>1 DEF Refuse
  <2>2. error # None /\ error # "Ok"
    BY <1>1, ExportAssumption
  <2> QED
    BY <2>1, <2>2 DEF OutInv, OutputIsWholeOrFails
<1>2. CASE NoChannels \/ NoTrackPoints
  BY <1>1, <1>2 DEF NoChannels, NoTrackPoints
<1>3. CASE CsvHeader
  BY <1>3, RecordIsSequence, EmitKeepsOutput DEF CsvHeader
<1>4. CASE CsvRecord
  BY <1>4, RecordIsSequence, EmitKeepsOutput DEF CsvRecord
<1>5. CASE CsvFlush
  BY <1>5, FixedIsSequence, CloseKeepsOutput DEF CsvFlush
<1>6. CASE GpxPreamble
  BY <1>6, FixedIsSequence, EmitKeepsOutput DEF GpxPreamble
<1>7. CASE GpxSegment
  BY <1>7, SegmentIsSequence, EmitKeepsOutput DEF GpxSegment
<1>8. CASE GpxPoint
  <2>1. CASE row \in located
    <3>1. IsSequence(Point(row) \o IF row \in timed THEN Time(row) ELSE <<>>)
      BY FixedIsSequence, ConcatStaysSequence
    <3>2. Emit(Point(row) \o IF row \in timed THEN Time(row) ELSE <<>>)
      BY <1>8, <2>1 DEF GpxPoint
    <3> QED
      BY <3>1, <3>2, EmitKeepsOutput
  <2>2. CASE row \notin located
    <3>1. UNCHANGED <<buffer, written, result, emitted>>
      BY <1>8, <2>2 DEF GpxPoint
    <3> QED
      BY <3>1 DEF OutInv, OutputIsWholeOrFails
  <2> QED
    BY <2>1, <2>2
<1>9. CASE GpxFooter
  BY <1>9, FixedIsSequence, CloseKeepsOutput DEF GpxFooter
<1>10. CASE ParquetOpen
  BY <1>10, FixedIsSequence, EmitKeepsOutput DEF ParquetOpen
<1>11. CASE ParquetColumn
  BY <1>11, ChunkIsSequence, EmitKeepsOutput DEF ParquetColumn
<1>12. CASE ParquetClose
  BY <1>12, FixedIsSequence, CloseKeepsOutput DEF ParquetClose
<1>13. CASE SerdeFields
  <2>1. <<[tag |-> "samples", length |-> rows]>> \in Seq({[tag |-> "samples", length |-> rows]})
    OBVIOUS
  <2>2. IsSequence(<<[tag |-> "samples", length |-> rows]>>)
    BY <2>1 DEF IsSequence
  <2>3. IsSequence(Fixed("header") \o Names)
    BY FixedIsSequence, RecordIsSequence, ConcatStaysSequence
  <2>4. IsSequence(Fixed("header") \o Names \o <<[tag |-> "samples", length |-> rows]>>)
    BY <2>2, <2>3, ConcatStaysSequence
  <2> QED
    BY <1>13, <2>4, EmitKeepsOutput DEF SerdeFields
<1>14. CASE SerdeElement
  BY <1>14, RecordIsSequence, EmitKeepsOutput DEF SerdeElement
<1>15. CASE SerdeEnd
  BY <1>15, FixedIsSequence, CloseKeepsOutput DEF SerdeEnd
<1>16. CASE UNCHANGED vars
  BY <1>16 DEF vars, OutInv, OutputIsWholeOrFails
<1> QED
  BY <1>2, <1>3, <1>4, <1>5, <1>6, <1>7, <1>8, <1>9, <1>10, <1>11, <1>12, <1>13, <1>14,
     <1>15, <1>16 DEF Next


-----------------------------------------------------------------------------
\* What tells two tokens of one tag apart.
Key(token) ==
  IF token.tag = "cell" THEN <<token.row, token.column>>
  ELSE IF token.tag = "channel" THEN token.column
  ELSE IF token.tag = "samples" THEN token.length
  ELSE token.row

\* t is s and, behind it, b.
Joined(s, n, b, m, t) ==
  /\ \A i \in 1..n : t[i] = s[i]
  /\ \A k \in 1..m : t[n + k] = b[k]

\* The keys of the tokens of a tag are those of D.
Keyed(s, n, tag, D) ==
  /\ \A i \in 1..n : s[i].tag = tag => Key(s[i]) \in D
  /\ \A d \in D : \E i \in 1..n : s[i].tag = tag /\ Key(s[i]) = d

\* Any two of them are in L, the earlier first.
Ordered(s, n, tag, L) ==
  \A i, j \in 1..n : i < j /\ s[i].tag = tag /\ s[j].tag = tag => <<Key(s[i]), Key(s[j])>> \in L

Leads(s, n, head, tag) ==
  \A i, j \in 1..n : s[i].tag = head /\ s[j].tag = tag => i < j

Free(s, n, tag) == \A i \in 1..n : s[i].tag # tag

(* The elements of a concatenation are those of the first and the second.  *)
LEMMA AppendJoins ==
  ASSUME NEW s, NEW b, IsSequence(s), IsSequence(b)
  PROVE  /\ Len(s) \in Nat /\ Len(b) \in Nat /\ Len(s \o b) = Len(s) + Len(b)
         /\ Joined(s, Len(s), b, Len(b), s \o b)
<1>1. PICK T : s \in Seq(T) /\ b \in Seq(T)
  BY ConcatIsSequence
<1> QED
  BY <1>1, ConcatFacts DEF Joined

(* Places of a concatenation: in the first or in the second part.          *)
LEMMA Places ==
  ASSUME NEW n \in Nat, NEW m \in Nat
  PROVE  /\ \A i \in 1..(n + m) : i \in 1..n \/ \E k \in 1..m : i = n + k
         /\ \A i \in 1..n : i \in 1..(n + m) /\ \A k \in 1..m : i < n + k
         /\ \A k \in 1..m : n + k \in 1..(n + m)
         /\ \A k, l \in 1..m : n + k < n + l <=> k < l
<1>1. ASSUME NEW i \in 1..(n + m), i \notin 1..n
      PROVE  \E k \in 1..m : i = n + k
  <2>1. i - n \in 1..m /\ i = n + (i - n)
    BY <1>1
  <2> QED
    BY <2>1
<1> QED
  BY <1>1

(* Keys of a concatenation.                                                *)
LEMMA KeyedJoin ==
  ASSUME NEW n \in Nat, NEW m \in Nat, NEW s, NEW b, NEW t, Joined(s, n, b, m, t),
         NEW tag, NEW D, NEW E, Keyed(s, n, tag, D), Keyed(b, m, tag, E)
  PROVE  Keyed(t, n + m, tag, D \cup E)
<1>1. ASSUME NEW i \in 1..(n + m), t[i].tag = tag
      PROVE  Key(t[i]) \in D \cup E
  <2>1. CASE i \in 1..n
    <3>1. t[i] = s[i]
      BY <2>1 DEF Joined
    <3> QED
      BY <1>1, <2>1, <3>1 DEF Keyed
  <2>2. CASE \E k \in 1..m : i = n + k
    <3>1. PICK k \in 1..m : i = n + k
      BY <2>2
    <3>2. t[i] = b[k]
      BY <3>1 DEF Joined
    <3> QED
      BY <1>1, <3>2 DEF Keyed
  <2> QED
    BY <2>1, <2>2, Places
<1>2. ASSUME NEW d \in D
      PROVE  \E i \in 1..(n + m) : t[i].tag = tag /\ Key(t[i]) = d
  <2>1. PICK i \in 1..n : s[i].tag = tag /\ Key(s[i]) = d
    BY DEF Keyed
  <2>2. i \in 1..(n + m) /\ t[i] = s[i]
    BY Places DEF Joined
  <2> QED
    BY <2>1, <2>2
<1>3. ASSUME NEW d \in E
      PROVE  \E i \in 1..(n + m) : t[i].tag = tag /\ Key(t[i]) = d
  <2>1. PICK k \in 1..m : b[k].tag = tag /\ Key(b[k]) = d
    BY DEF Keyed
  <2>2. n + k \in 1..(n + m) /\ t[n + k] = b[k]
    BY Places DEF Joined
  <2> QED
    BY <2>1, <2>2
<1> QED
  BY <1>1, <1>2, <1>3 DEF Keyed

(* Order in a concatenation.                                               *)
LEMMA OrderedJoin ==
  ASSUME NEW n \in Nat, NEW m \in Nat, NEW s, NEW b, NEW t, Joined(s, n, b, m, t),
         NEW tag, NEW D, NEW E, Keyed(s, n, tag, D), Keyed(b, m, tag, E),
         NEW L, Ordered(s, n, tag, L), Ordered(b, m, tag, L),
         \A x \in D : \A y \in E : <<x, y>> \in L
  PROVE  Ordered(t, n + m, tag, L)
<1> SUFFICES ASSUME NEW i \in 1..(n + m), NEW j \in 1..(n + m), i < j,
                    t[i].tag = tag, t[j].tag = tag
             PROVE  <<Key(t[i]), Key(t[j])>> \in L
  BY DEF Ordered
<1>1. CASE i \in 1..n /\ j \in 1..n
  <2>1. t[i] = s[i] /\ t[j] = s[j]
    BY <1>1 DEF Joined
  <2> QED
    BY <1>1, <2>1 DEF Ordered
<1>2. CASE i \in 1..n /\ \E l \in 1..m : j = n + l
  <2>1. PICK l \in 1..m : j = n + l
    BY <1>2
  <2>2. t[i] = s[i] /\ t[j] = b[l]
    BY <1>2, <2>1 DEF Joined
  <2>3. Key(t[i]) \in D /\ Key(t[j]) \in E
    BY <1>2, <2>2 DEF Keyed
  <2> QED
    BY <2>3
<1>3. CASE \E k, l \in 1..m : i = n + k /\ j = n + l
  <2>1. PICK k \in 1..m, l \in 1..m : i = n + k /\ j = n + l
    BY <1>3
  <2>2. t[i] = b[k] /\ t[j] = b[l]
    BY <2>1 DEF Joined
  <2>3. k < l
    BY <2>1
  <2> QED
    BY <2>2, <2>3 DEF Ordered
<1>4. CASE j \in 1..n /\ i \notin 1..n
  BY <1>4
<1> QED
  BY <1>1, <1>2, <1>3, <1>4, Places

(* A head that the second does not continue still leads.                   *)
LEMMA LeadsJoin ==
  ASSUME NEW n \in Nat, NEW m \in Nat, NEW s, NEW b, NEW t, Joined(s, n, b, m, t),
         NEW head, NEW tag, Leads(s, n, head, tag), Free(b, m, head)
  PROVE  Leads(t, n + m, head, tag)
<1> SUFFICES ASSUME NEW i \in 1..(n + m), NEW j \in 1..(n + m), t[i].tag = head, t[j].tag = tag
             PROVE  i < j
  BY DEF Leads
<1>1. i \in 1..n
  <2> SUFFICES ASSUME NEW k \in 1..m, i = n + k PROVE FALSE
    BY Places
  <2>1. t[i] = b[k]
    BY DEF Joined
  <2> QED
    BY <2>1 DEF Free
<1>2. CASE j \in 1..n
  <2>1. t[i] = s[i] /\ t[j] = s[j]
    BY <1>1, <1>2 DEF Joined
  <2> QED
    BY <1>1, <1>2, <2>1 DEF Leads
<1>3. CASE \E k \in 1..m : j = n + k
  BY <1>1, <1>3, Places
<1> QED
  BY <1>2, <1>3, Places

(* No tokens of a tag.                                                     *)
LEMMA FreeIsKeyed ==
  ASSUME NEW n \in Nat, NEW s, NEW tag, Free(s, n, tag)
  PROVE  /\ Keyed(s, n, tag, {}) /\ \A L : Ordered(s, n, tag, L)
         /\ \A head : Leads(s, n, head, tag)
  BY DEF Free, Keyed, Ordered, Leads

(* A concatenation with something free of a tag.                           *)
LEMMA JoinFree ==
  ASSUME NEW n \in Nat, NEW m \in Nat, NEW s, NEW b, NEW t, Joined(s, n, b, m, t),
         NEW tag, NEW D, Keyed(s, n, tag, D), Free(b, m, tag)
  PROVE  /\ Keyed(t, n + m, tag, D)
         /\ \A L : Ordered(s, n, tag, L) => Ordered(t, n + m, tag, L)
<1>1. Keyed(b, m, tag, {}) /\ \A L : Ordered(b, m, tag, L)
  BY FreeIsKeyed
<1>2. Keyed(t, n + m, tag, D \cup {})
  BY <1>1, KeyedJoin
<1>3. D \cup {} = D
  OBVIOUS
<1>4. ASSUME NEW L, Ordered(s, n, tag, L)
      PROVE  Ordered(t, n + m, tag, L)
  <2>1. \A x \in D : \A y \in {} : <<x, y>> \in L
    OBVIOUS
  <2> QED
    BY <1>1, <1>4, <2>1, OrderedJoin
<1> QED
  BY <1>2, <1>3, <1>4

(* Two stretches without a tag make one.                                   *)
LEMMA FreeJoin ==
  ASSUME NEW n \in Nat, NEW m \in Nat, NEW s, NEW b, NEW t, Joined(s, n, b, m, t),
         NEW tag, Free(s, n, tag), Free(b, m, tag)
  PROVE  Free(t, n + m, tag)
<1> SUFFICES ASSUME NEW i \in 1..(n + m) PROVE t[i].tag # tag
  BY DEF Free
<1>1. CASE i \in 1..n
  BY <1>1 DEF Joined, Free
<1>2. CASE \E k \in 1..m : i = n + k
  BY <1>2 DEF Joined, Free
<1> QED
  BY <1>1, <1>2, Places

-----------------------------------------------------------------------------
Less == {p \in Nat \X Nat : p[1] < p[2]}

\* Row by row and column by column; and of different rows or columns.
Lexical ==
  {p \in (Nat \X Nat) \X (Nat \X Nat) :
     p[1][1] < p[2][1] \/ (p[1][1] = p[2][1] /\ p[1][2] < p[2][2])}
Different ==
  {p \in (Nat \X Nat) \X (Nat \X Nat) : p[1][1] # p[2][1] \/ p[1][2] # p[2][2]}

(* The orders, by rows and columns.                                        *)
LEMMA OrderFacts ==
  ASSUME NEW a \in Nat, NEW b \in Nat, NEW c \in Nat, NEW d \in Nat
  PROVE  /\ <<a, b>> \in Less <=> a < b
         /\ <<<<a, b>>, <<c, d>>>> \in Lexical <=> a < c \/ (a = c /\ b < d)
         /\ <<<<a, b>>, <<c, d>>>> \in Different <=> a # c \/ b # d
<1>1. <<a, b>> \in Less <=> a < b
  BY DEF Less
<1>2. <<<<a, b>>, <<c, d>>>> \in (Nat \X Nat) \X (Nat \X Nat)
  OBVIOUS
<1>3. <<<<a, b>>, <<c, d>>>> \in Lexical <=> a < c \/ (a = c /\ b < d)
  BY <1>2 DEF Lexical
<1>4. <<<<a, b>>, <<c, d>>>> \in Different <=> a # c \/ b # d
  BY <1>2 DEF Different
<1> QED
  BY <1>1, <1>3, <1>4

(* Row and column of an index of the table.                                *)
LEMMA IndexFacts ==
  ASSUME NEW w \in Nat \ {0}, NEW r \in Nat, NEW k \in 0..(w - 1)
  PROVE  (r * w + k) \div w = r /\ (r * w + k) % w = k
<1>1. PICK x \in Nat : x = r * w + k
  BY ProductStep
<1>2. PICK q, e : q \in Int /\ e \in 0..(w - 1) /\ q = x \div w /\ e = x % w /\ x = w * q + e
  <2>1. x \div w \in Int /\ x % w \in 0..(w - 1) /\ x = w * (x \div w) + (x % w)
    OBVIOUS
  <2> QED
    BY <2>1
<1>3. w * q = q * w /\ q * w \in Int /\ r * w \in Int
  BY <1>2
<1>4. ~(q < r)
  <2> SUFFICES ASSUME q < r PROVE FALSE
    OBVIOUS
  <2>1. q + 1 \in Int /\ q + 1 <= r /\ (q + 1) * w = q * w + w
    BY <1>2, DistributeLeft
  <2>2. (q + 1) * w <= r * w
    BY <2>1, ScaleKeepsOrder
  <2> QED
    BY <1>1, <1>2, <1>3, <2>1, <2>2
<1>5. ~(r < q)
  <2> SUFFICES ASSUME r < q PROVE FALSE
    OBVIOUS
  <2>1. r + 1 \in Int /\ r + 1 <= q /\ (r + 1) * w = r * w + w
    BY <1>2, DistributeLeft
  <2>2. (r + 1) * w <= q * w
    BY <1>2, <2>1, ScaleKeepsOrder
  <2> QED
    BY <1>1, <1>2, <1>3, <2>1, <2>2
<1>6. q = r
  BY <1>2, <1>4, <1>5
<1>7. e = k
  BY <1>1, <1>2, <1>3, <1>6
<1> QED
  BY <1>1, <1>2, <1>6, <1>7

\* The cells of rows a to b - 1 in columns c to d - 1.
Block(a, b, c, d) == (a..(b - 1)) \X (c..(d - 1))

CellOf(r, c) == [tag |-> "cell", row |-> r, column |-> c]

(* A cell and its key.                                                     *)
LEMMA CellFacts ==
  ASSUME NEW r, NEW c
  PROVE  /\ CellOf(r, c).tag = "cell" /\ CellOf(r, c).row = r /\ CellOf(r, c).column = c
         /\ Key(CellOf(r, c)) = <<r, c>>
  BY DEF CellOf, Key

(* What is behind an index of the table.                                   *)
LEMMA ValueFacts ==
  ASSUME width \in Nat, NEW r \in Nat, NEW k \in 0..(width - 1)
  PROVE  Value(r * width + k) = CellOf(r, k)
<1>1. width \in Nat \ {0}
  OBVIOUS
<1>2. PICK w : w = width
  OBVIOUS
<1>3. (r * w + k) \div w = r /\ (r * w + k) % w = k
  BY <1>1, <1>2, IndexFacts
<1> QED
  BY <1>2, <1>3 DEF Value, CellOf

(* A record is a row of the table.                                         *)
LEMMA RecordFacts ==
  ASSUME width \in Nat, NEW r \in Nat
  PROVE  /\ Len(Record(r)) = width
         /\ Keyed(Record(r), width, "cell", Block(r, r + 1, 0, width))
         /\ Ordered(Record(r), width, "cell", Lexical)
         /\ \A tag : tag # "cell" => Free(Record(r), width, tag)
<1>1. PICK w, b : w \in Nat /\ w = width /\ b = Record(r)
  OBVIOUS
<1> w \in Nat
  BY <1>1
<1>2. b = [c \in 1..w |-> Value(r * width + c - 1)]
  BY <1>1 DEF Record
<1>3. Len(b) = w /\ \A c \in 1..w : b[c] = Value(r * width + c - 1)
  BY <1>2
<1>4. ASSUME NEW c \in 1..w PROVE b[c] = CellOf(r, c - 1)
  <2>1. PICK k \in 0..(width - 1) : k = c - 1
    BY <1>1
  <2>2. r * width + c - 1 = r * width + k
    <3>1. r * width \in Int
      BY <1>1
    <3> QED
      BY <2>1, <3>1
  <2> QED
    BY <1>1, <1>3, <2>1, <2>2, ValueFacts
<1>5. ASSUME NEW c \in 1..w PROVE b[c].tag = "cell" /\ Key(b[c]) = <<r, c - 1>>
  BY <1>4, CellFacts
<1>6. r + 1 - 1 = r
  OBVIOUS
<1>7. Keyed(b, w, "cell", Block(r, r + 1, 0, w))
  <2>1. ASSUME NEW c \in 1..w PROVE Key(b[c]) \in Block(r, r + 1, 0, w)
    <3>1. r \in r..(r + 1 - 1) /\ c - 1 \in 0..(w - 1)
      OBVIOUS
    <3> QED
      BY <1>5, <3>1 DEF Block
  <2>2. ASSUME NEW d \in Block(r, r + 1, 0, w)
        PROVE  \E i \in 1..w : b[i].tag = "cell" /\ Key(b[i]) = d
    <3>1. PICK e \in r..(r + 1 - 1), k \in 0..(w - 1) : d = <<e, k>>
      BY DEF Block
    <3>2. e = r /\ k + 1 \in 1..w /\ (k + 1) - 1 = k
      BY <3>1
    <3> QED
      BY <1>5, <3>1, <3>2
  <2> QED
    BY <2>1, <2>2 DEF Keyed
<1>8. Ordered(b, w, "cell", Lexical)
  <2> SUFFICES ASSUME NEW i \in 1..w, NEW j \in 1..w, i < j
               PROVE  <<Key(b[i]), Key(b[j])>> \in Lexical
    BY DEF Ordered
  <2>1. i - 1 \in Nat /\ j - 1 \in Nat /\ i - 1 < j - 1
    OBVIOUS
  <2>2. <<<<r, i - 1>>, <<r, j - 1>>>> \in Lexical
    BY <2>1, OrderFacts
  <2> QED
    BY <1>5, <2>2
<1>9. \A tag : tag # "cell" => Free(b, w, tag)
  BY <1>5 DEF Free
<1> QED
  BY <1>1, <1>3, <1>7, <1>8, <1>9

(* The names are those of the columns, in order.                           *)
LEMMA NamesFacts ==
  ASSUME width \in Nat
  PROVE  /\ Len(Names) = width
         /\ Keyed(Names, width, "channel", Columns)
         /\ Ordered(Names, width, "channel", Less)
         /\ \A tag : tag # "channel" => Free(Names, width, tag)
<1>1. PICK w, b : w \in Nat /\ w = width /\ b = Names
  OBVIOUS
<1> w \in Nat
  BY <1>1
<1>2. b = [c \in 1..w |-> [tag |-> "channel", column |-> c - 1]]
  BY <1>1 DEF Names
<1>3. Len(b) = w /\ \A c \in 1..w : b[c] = [tag |-> "channel", column |-> c - 1]
  BY <1>2
<1>4. ASSUME NEW c \in 1..w PROVE b[c].tag = "channel" /\ Key(b[c]) = c - 1
  BY <1>3 DEF Key
<1>5. Keyed(b, w, "channel", 0..(w - 1))
  <2>1. \A c \in 1..w : c - 1 \in 0..(w - 1)
    OBVIOUS
  <2>2. ASSUME NEW d \in 0..(w - 1) PROVE \E i \in 1..w : b[i].tag = "channel" /\ Key(b[i]) = d
    <3>1. d + 1 \in 1..w /\ (d + 1) - 1 = d
      OBVIOUS
    <3> QED
      BY <1>4, <3>1
  <2> QED
    BY <1>4, <2>1, <2>2 DEF Keyed
<1>6. Ordered(b, w, "channel", Less)
  <2> SUFFICES ASSUME NEW i \in 1..w, NEW j \in 1..w, i < j
               PROVE  <<Key(b[i]), Key(b[j])>> \in Less
    BY DEF Ordered
  <2>1. i - 1 \in Nat /\ j - 1 \in Nat /\ i - 1 < j - 1
    OBVIOUS
  <2>2. <<i - 1, j - 1>> \in Less
    BY <2>1, OrderFacts
  <2>3. Key(b[i]) = i - 1 /\ Key(b[j]) = j - 1
    BY <1>4
  <2> QED
    BY <2>2, <2>3
<1>7. \A tag : tag # "channel" => Free(b, w, tag)
  BY <1>4 DEF Free
<1> QED
  BY <1>1, <1>3, <1>5, <1>6, <1>7 DEF Columns

(* A single token.                                                         *)
LEMMA SingleFacts ==
  ASSUME NEW token
  PROVE  /\ IsSequence(<<token>>) /\ Len(<<token>>) = 1 /\ <<token>>[1] = token
         /\ Keyed(<<token>>, 1, token.tag, {Key(token)})
         /\ \A L : Ordered(<<token>>, 1, token.tag, L)
         /\ \A tag : tag # token.tag => Free(<<token>>, 1, tag)
<1>1. PICK b : b = <<token>>
  OBVIOUS
<1>2. Len(b) = 1 /\ b[1] = token /\ b \in Seq({token}) /\ 1 \in 1..1 /\ \A i \in 1..1 : i = 1
  BY <1>1
<1>3. IsSequence(b)
  BY <1>2 DEF IsSequence
<1>4. Keyed(b, 1, token.tag, {Key(token)})
  BY <1>2 DEF Keyed
<1>5. \A L : Ordered(b, 1, token.tag, L)
  BY <1>2 DEF Ordered
<1>6. \A tag : tag # token.tag => Free(b, 1, tag)
  BY <1>2 DEF Free
<1> QED
  BY <1>1, <1>2, <1>3, <1>4, <1>5, <1>6

(* A fixed part has none of the tags that matter.                          *)
LEMMA FixedFacts ==
  ASSUME NEW part
  PROVE  /\ IsSequence(Fixed(part)) /\ Len(Fixed(part)) = 1
         /\ \A tag : tag # part => Free(Fixed(part), 1, tag)
<1>1. PICK token : token = [tag |-> part]
  OBVIOUS
<1>2. token.tag = part
  BY <1>1
<1> QED
  BY <1>1, <1>2, SingleFacts DEF Fixed

-----------------------------------------------------------------------------
(* CSV and serde: the first r rows, behind the names of the columns, and   *)
(* behind the number of rows.                                              *)
TableFacts(s, n, r, w) == Keyed(s, n, "cell", Block(0, r, 0, w)) /\ Ordered(s, n, "cell", Lexical)
HeadFacts(s, n, w) ==
  /\ Keyed(s, n, "channel", 0..(w - 1)) /\ Ordered(s, n, "channel", Less)
  /\ Leads(s, n, "channel", "cell")
CountFacts(s, n, r) ==
  /\ Keyed(s, n, "samples", {r}) /\ Ordered(s, n, "samples", {})
  /\ Leads(s, n, "samples", "cell")

(* One record more.                                                        *)
LEMMA RecordJoins ==
  ASSUME width \in Nat, NEW r \in Nat, NEW n \in Nat, NEW s, NEW t,
         Joined(s, n, Record(r), width, t), TableFacts(s, n, r, width)
  PROVE  TableFacts(t, n + width, r + 1, width)
<1>1. PICK w, b : w \in Nat /\ w = width /\ b = Record(r)
  OBVIOUS
<1> w \in Nat
  BY <1>1
<1>2. PICK D, E : D = Block(0, r, 0, w) /\ E = Block(r, r + 1, 0, w)
  OBVIOUS
<1>3. /\ Keyed(s, n, "cell", D) /\ Ordered(s, n, "cell", Lexical)
      /\ Keyed(b, w, "cell", E) /\ Ordered(b, w, "cell", Lexical) /\ Joined(s, n, b, w, t)
  BY <1>1, <1>2, RecordFacts DEF TableFacts
<1>4. Keyed(t, n + w, "cell", D \cup E)
  BY <1>3, KeyedJoin
<1>5. \A x \in D : \A y \in E : <<x, y>> \in Lexical
  <2> SUFFICES ASSUME NEW x \in D, NEW y \in E PROVE <<x, y>> \in Lexical
    OBVIOUS
  <2>1. PICK i \in 0..(r - 1), j \in 0..(w - 1) : x = <<i, j>>
    BY <1>2 DEF Block
  <2>2. PICK k \in r..(r + 1 - 1), l \in 0..(w - 1) : y = <<k, l>>
    BY <1>2 DEF Block
  <2>3. i \in Nat /\ j \in Nat /\ k \in Nat /\ l \in Nat /\ i < k
    OBVIOUS
  <2> QED
    BY <2>1, <2>2, <2>3, OrderFacts
<1>6. Ordered(t, n + w, "cell", Lexical)
  BY <1>3, <1>5, OrderedJoin
<1>7. D \cup E = Block(0, r + 1, 0, w)
  <2>1. PICK A, B, C, F : /\ A = 0..(r - 1) /\ B = r..(r + 1 - 1) /\ C = 0..(r + 1 - 1)
                          /\ F = 0..(w - 1)
    OBVIOUS
  <2>2. \A i : i \in C <=> i \in A \/ i \in B
    BY <2>1
  <2>3. C = A \cup B
    BY <2>2, Zenon
  <2>4. D = A \X F /\ E = B \X F /\ Block(0, r + 1, 0, w) = C \X F
    BY <1>2, <2>1 DEF Block
  <2> QED
    BY <2>3, <2>4
<1> QED
  BY <1>1, <1>4, <1>6, <1>7 DEF TableFacts

(* The head stays what it is, and leads.                                   *)
LEMMA HeadStays ==
  ASSUME NEW w \in Nat, NEW r \in Nat, NEW n \in Nat, NEW m \in Nat, NEW s, NEW b, NEW t,
         Joined(s, n, b, m, t)
  PROVE  /\ HeadFacts(s, n, w) /\ Free(b, m, "channel") => HeadFacts(t, n + m, w)
         /\ CountFacts(s, n, r) /\ Free(b, m, "samples") => CountFacts(t, n + m, r)
<1>1. ASSUME HeadFacts(s, n, w), Free(b, m, "channel")
      PROVE  HeadFacts(t, n + m, w)
  BY <1>1, JoinFree, LeadsJoin DEF HeadFacts
<1>2. ASSUME CountFacts(s, n, r), Free(b, m, "samples")
      PROVE  CountFacts(t, n + m, r)
  BY <1>2, JoinFree, LeadsJoin DEF CountFacts
<1> QED
  BY <1>1, <1>2

(* A table stays what it is when no cell follows.                          *)
LEMMA TableStays ==
  ASSUME NEW w \in Nat, NEW r \in Nat, NEW n \in Nat, NEW m \in Nat, NEW s, NEW b, NEW t,
         Joined(s, n, b, m, t), TableFacts(s, n, r, w), Free(b, m, "cell")
  PROVE  TableFacts(t, n + m, r, w)
  BY JoinFree DEF TableFacts

(* The names head a table without cells.                                   *)
LEMMA NamesHead ==
  ASSUME width \in Nat
  PROVE  HeadFacts(Names, width, width) /\ TableFacts(Names, width, 0, width)
<1>1. Leads(Names, width, "channel", "cell") /\ Keyed(Names, width, "cell", {})
      /\ Ordered(Names, width, "cell", Lexical)
  BY NamesFacts, FreeIsKeyed
<1>2. Block(0, 0, 0, width) = {}
  BY DEF Block
<1> QED
  BY <1>1, <1>2, NamesFacts DEF HeadFacts, TableFacts, Columns

SamplesToken == [tag |-> "samples", length |-> rows]

(* And so do the three parts serde begins with.                            *)
LEMMA FieldsHead ==
  ASSUME width \in Nat, NEW b, b = Fixed("header") \o Names \o <<SamplesToken>>
  PROVE  /\ IsSequence(b) /\ Len(b) = width + 2
         /\ HeadFacts(b, width + 2, width) /\ TableFacts(b, width + 2, 0, width)
         /\ CountFacts(b, width + 2, rows)
<1>1. PICK w, h, q : w \in Nat /\ w = width /\ h = Fixed("header") /\ q = Names
  OBVIOUS
<1> w \in Nat
  BY <1>1
<1>2. PICK u, z : u = h \o q /\ z = <<SamplesToken>>
  OBVIOUS
<1>3. IsSequence(h) /\ Len(h) = 1 /\ \A tag : tag # "header" => Free(h, 1, tag)
  BY <1>1, FixedFacts
<1>4. IsSequence(q) /\ Len(q) = w
  <2>1. q = [c \in 1..w |-> [tag |-> "channel", column |-> c - 1]]
    BY <1>1 DEF Names
  <2>2. PICK T : T = {[tag |-> "channel", column |-> c - 1] : c \in 1..w}
    OBVIOUS
  <2>3. q \in [1..w -> T]
    BY <2>1, <2>2, Zenon
  <2>4. q \in Seq(T)
    BY <2>3
  <2> QED
    BY <1>1, <2>4, NamesFacts DEF IsSequence
<1>5. IsSequence(u) /\ Len(u) = 1 + w /\ Joined(h, 1, q, w, u)
  BY <1>2, <1>3, <1>4, AppendJoins, ConcatStaysSequence
<1>6. /\ SamplesToken.tag = "samples" /\ Key(SamplesToken) = rows
  BY DEF SamplesToken, Key
<1>7. /\ IsSequence(z) /\ Len(z) = 1
      /\ Keyed(z, 1, "samples", {rows}) /\ Ordered(z, 1, "samples", {})
      /\ \A tag : tag # "samples" => Free(z, 1, tag)
  BY <1>2, <1>6, SingleFacts
<1>8. b = u \o z
  BY <1>1, <1>2
<1>9. 1 \in Nat /\ 1 + w \in Nat /\ (1 + w) + 1 = w + 2
  OBVIOUS
<1>10. IsSequence(b) /\ Len(b) = (1 + w) + 1 /\ Joined(u, 1 + w, z, 1, b)
  BY <1>5, <1>7, <1>8, AppendJoins, ConcatStaysSequence
<1>11. \A tag : tag # "header" /\ tag # "channel" => Free(u, 1 + w, tag)
  BY <1>1, <1>3, <1>5, <1>9, NamesFacts, FreeJoin
<1>12. Free(u, 1 + w, "cell") /\ Free(u, 1 + w, "samples") /\ Free(z, 1, "cell") /\ Free(z, 1, "channel")
  BY <1>7, <1>11
<1>13. Free(b, w + 2, "cell")
  BY <1>9, <1>10, <1>12, FreeJoin
<1>14. /\ Keyed(b, w + 2, "cell", {}) /\ \A L : Ordered(b, w + 2, "cell", L)
       /\ \A head : Leads(b, w + 2, head, "cell")
  BY <1>13, FreeIsKeyed
<1>15. Keyed(u, 1 + w, "channel", 0..(w - 1)) /\ Ordered(u, 1 + w, "channel", Less)
  <2>1. Keyed(q, w, "channel", 0..(w - 1)) /\ Ordered(q, w, "channel", Less)
    BY <1>1, NamesFacts DEF Columns
  <2>2. Keyed(h, 1, "channel", {}) /\ Ordered(h, 1, "channel", Less)
    BY <1>3, FreeIsKeyed
  <2>3. {} \cup (0..(w - 1)) = 0..(w - 1)
    OBVIOUS
  <2>4. \A x \in {} : \A y \in 0..(w - 1) : <<x, y>> \in Less
    OBVIOUS
  <2>5. Keyed(u, 1 + w, "channel", {} \cup (0..(w - 1)))
    BY <1>5, <1>9, <2>1, <2>2, KeyedJoin
  <2>6. Ordered(u, 1 + w, "channel", Less)
    BY <1>5, <1>9, <2>1, <2>2, <2>4, OrderedJoin
  <2> QED
    BY <2>3, <2>5, <2>6
<1>16. Keyed(b, w + 2, "channel", 0..(w - 1)) /\ Ordered(b, w + 2, "channel", Less)
  BY <1>9, <1>10, <1>12, <1>15, JoinFree
<1>17. Keyed(b, w + 2, "samples", {rows}) /\ Ordered(b, w + 2, "samples", {})
  <2>1. Keyed(u, 1 + w, "samples", {}) /\ Ordered(u, 1 + w, "samples", {})
    BY <1>9, <1>12, FreeIsKeyed
  <2>2. {} \cup {rows} = {rows}
    OBVIOUS
  <2>3. \A x \in {} : \A y \in {rows} : <<x, y>> \in {}
    OBVIOUS
  <2>4. Keyed(b, (1 + w) + 1, "samples", {} \cup {rows})
    BY <1>7, <1>9, <1>10, <2>1, KeyedJoin
  <2>5. Ordered(b, (1 + w) + 1, "samples", {})
    BY <1>7, <1>9, <1>10, <2>1, <2>3, OrderedJoin
  <2> QED
    BY <1>9, <2>2, <2>4, <2>5
<1>18. Block(0, 0, 0, w) = {}
  BY DEF Block
<1> QED
  BY <1>1, <1>9, <1>10, <1>14, <1>16, <1>17, <1>18 DEF HeadFacts, TableFacts, CountFacts

-----------------------------------------------------------------------------
(* GPX: the points of the rows D, in order, each time behind its point,    *)
(* and no character in need of an escape.                                  *)
Follows(s, n, T) ==
  /\ \A i \in 1..n : s[i].tag = "trkpt" /\ s[i].row \in T => i + 1 \in 1..n /\ s[i + 1].tag = "time"
  /\ \A i \in 1..n : s[i].tag = "time" =>
       i - 1 \in 1..n /\ s[i - 1].tag = "trkpt" /\ s[i].row = s[i - 1].row /\ s[i].row \in T
TextPlain(s, n) == \A i \in 1..n : s[i].tag = "text" => s[i].char \in Plain
TrackFacts(s, n, D, T) ==
  /\ Keyed(s, n, "trkpt", D) /\ Ordered(s, n, "trkpt", Less)
  /\ Follows(s, n, T) /\ TextPlain(s, n) /\ Free(s, n, "cell")

(* Two stretches of a track, all points of the first before the second's.  *)
LEMMA TrackJoins ==
  ASSUME NEW n \in Nat, NEW m \in Nat, NEW s, NEW b, NEW t, Joined(s, n, b, m, t),
         NEW D, NEW E, NEW T, TrackFacts(s, n, D, T), TrackFacts(b, m, E, T),
         \A x \in D : \A y \in E : <<x, y>> \in Less
  PROVE  TrackFacts(t, n + m, D \cup E, T)
<1>1. Keyed(t, n + m, "trkpt", D \cup E)
  BY KeyedJoin DEF TrackFacts
<1>2. Ordered(t, n + m, "trkpt", Less)
  BY OrderedJoin DEF TrackFacts
<1>3. Free(t, n + m, "cell")
  BY FreeJoin DEF TrackFacts
<1>4. TextPlain(t, n + m)
  <2> SUFFICES ASSUME NEW i \in 1..(n + m), t[i].tag = "text" PROVE t[i].char \in Plain
    BY DEF TextPlain
  <2>1. CASE i \in 1..n
    BY <2>1 DEF Joined, TrackFacts, TextPlain
  <2>2. CASE \E k \in 1..m : i = n + k
    BY <2>2 DEF Joined, TrackFacts, TextPlain
  <2> QED
    BY <2>1, <2>2, Places
<1>5. ASSUME NEW i \in 1..(n + m), t[i].tag = "trkpt", t[i].row \in T
      PROVE  i + 1 \in 1..(n + m) /\ t[i + 1].tag = "time"
  <2>1. CASE i \in 1..n
    <3>1. t[i] = s[i]
      BY <2>1 DEF Joined
    <3>2. i + 1 \in 1..n /\ s[i + 1].tag = "time"
      BY <1>5, <2>1, <3>1 DEF TrackFacts, Follows
    <3>3. i + 1 \in 1..(n + m) /\ t[i + 1] = s[i + 1]
      BY <3>2, Places DEF Joined
    <3> QED
      BY <3>2, <3>3
  <2>2. CASE \E k \in 1..m : i = n + k
    <3>1. PICK k \in 1..m : i = n + k
      BY <2>2
    <3>2. t[i] = b[k]
      BY <3>1 DEF Joined
    <3>3. PICK l \in 1..m : l = k + 1 /\ b[l].tag = "time"
      BY <1>5, <3>2 DEF TrackFacts, Follows
    <3>4. n + l \in 1..(n + m) /\ t[n + l] = b[l] /\ i + 1 = n + l
      BY <3>1, <3>3, Places DEF Joined
    <3> QED
      BY <3>3, <3>4
  <2> QED
    BY <2>1, <2>2, Places
<1>6. ASSUME NEW i \in 1..(n + m), t[i].tag = "time"
      PROVE  i - 1 \in 1..(n + m) /\ t[i - 1].tag = "trkpt" /\ t[i].row = t[i - 1].row /\ t[i].row \in T
  <2>1. CASE i \in 1..n
    <3>1. t[i] = s[i]
      BY <2>1 DEF Joined
    <3>2. i - 1 \in 1..n /\ s[i - 1].tag = "trkpt" /\ s[i].row = s[i - 1].row /\ s[i].row \in T
      BY <1>6, <2>1, <3>1 DEF TrackFacts, Follows
    <3>3. i - 1 \in 1..(n + m) /\ t[i - 1] = s[i - 1]
      BY <3>2, Places DEF Joined
    <3> QED
      BY <3>1, <3>2, <3>3
  <2>2. CASE \E k \in 1..m : i = n + k
    <3>1. PICK k \in 1..m : i = n + k
      BY <2>2
    <3>2. t[i] = b[k]
      BY <3>1 DEF Joined
    <3>3. PICK l \in 1..m : l = k - 1 /\ b[l].tag = "trkpt" /\ b[k].row = b[l].row /\ b[k].row \in T
      BY <1>6, <3>2 DEF TrackFacts, Follows
    <3>4. n + l \in 1..(n + m) /\ t[n + l] = b[l] /\ i - 1 = n + l
      BY <3>1, <3>3, Places DEF Joined
    <3> QED
      BY <3>2, <3>3, <3>4
  <2> QED
    BY <2>1, <2>2, Places
<1> QED
  BY <1>1, <1>2, <1>3, <1>4, <1>5, <1>6 DEF TrackFacts, Follows

(* A stretch without points, times, cells and text.                        *)
LEMMA TrackWithoutPoints ==
  ASSUME NEW n \in Nat, NEW s, NEW T, TextPlain(s, n),
         Free(s, n, "trkpt"), Free(s, n, "time"), Free(s, n, "cell")
  PROVE  TrackFacts(s, n, {}, T)
<1>1. Keyed(s, n, "trkpt", {}) /\ Ordered(s, n, "trkpt", Less)
  BY FreeIsKeyed
<1>2. Follows(s, n, T)
  BY DEF Free, Follows
<1> QED
  BY <1>1, <1>2 DEF TrackFacts

(* A fixed part of a track.                                                *)
LEMMA TrackFixed ==
  ASSUME NEW part \in {"trk", "trkseg", "name", "end of name", "end of trk"}, NEW T
  PROVE  /\ IsSequence(Fixed(part)) /\ Len(Fixed(part)) = 1
         /\ TrackFacts(Fixed(part), 1, {}, T)
<1>1. /\ IsSequence(Fixed(part)) /\ Len(Fixed(part)) = 1
      /\ Free(Fixed(part), 1, "trkpt") /\ Free(Fixed(part), 1, "time")
      /\ Free(Fixed(part), 1, "cell") /\ Free(Fixed(part), 1, "text")
  BY FixedFacts
<1>2. TextPlain(Fixed(part), 1)
  BY <1>1 DEF Free, TextPlain
<1> QED
  BY <1>1, <1>2, TrackWithoutPoints

(* Two stretches without points.                                           *)
LEMMA TrackHeads ==
  ASSUME NEW s, NEW b, NEW T, IsSequence(s), IsSequence(b),
         TrackFacts(s, Len(s), {}, T), TrackFacts(b, Len(b), {}, T)
  PROVE  IsSequence(s \o b) /\ TrackFacts(s \o b, Len(s \o b), {}, T)
<1>1. IsSequence(s \o b)
  BY ConcatStaysSequence
<1>2. PICK n, m, t : n = Len(s) /\ m = Len(b) /\ t = s \o b
  OBVIOUS
<1>3. n \in Nat /\ m \in Nat /\ Len(t) = n + m /\ Joined(s, n, b, m, t)
  BY <1>2, AppendJoins
<1>4. TrackFacts(t, n + m, {} \cup {}, T)
  <2>1. TrackFacts(s, n, {}, T) /\ TrackFacts(b, m, {}, T)
    BY <1>2
  <2>2. \A x \in {} : \A y \in {} : <<x, y>> \in Less
    OBVIOUS
  <2> QED
    BY <1>3, <2>1, <2>2, TrackJoins
<1>5. {} \cup {} = {}
  OBVIOUS
<1> QED
  BY <1>1, <1>2, <1>3, <1>4, <1>5

(* The name of a track has no character in need of an escape.              *)
LEMMA EscapeFacts ==
  ASSUME created \in Seq(Markup \cup Plain), NEW T
  PROVE  /\ IsSequence(EscapeXml(created))
         /\ TrackFacts(EscapeXml(created), Len(EscapeXml(created)), {}, T)
<1>1. PICK n, b : n \in Nat /\ n = Len(created) /\ b = EscapeXml(created)
  OBVIOUS
<1> n \in Nat
  BY <1>1
<1>2. DOMAIN created = 1..n
  BY <1>1
<1>3. b = [i \in 1..n |->
             [tag |-> IF created[i] \in Markup THEN "entity" ELSE "text", char |-> created[i]]]
  BY <1>1, <1>2 DEF EscapeXml
<1>4. PICK S : S = {[tag |-> IF created[i] \in Markup THEN "entity" ELSE "text",
                     char |-> created[i]] : i \in 1..n}
  OBVIOUS
<1>5. b \in [1..n -> S]
  BY <1>3, <1>4, Zenon
<1>6. b \in Seq(S) /\ Len(b) = n
  BY <1>5
<1>7. IsSequence(b)
  BY <1>6 DEF IsSequence
<1>8. \A i \in 1..n : /\ b[i].tag = IF created[i] \in Markup THEN "entity" ELSE "text"
                      /\ b[i].char = created[i]
  BY <1>3
<1>9. TextPlain(b, n)
  <2> SUFFICES ASSUME NEW i \in 1..n, b[i].tag = "text" PROVE b[i].char \in Plain
    BY DEF TextPlain
  <2>1. created[i] \in Markup \cup Plain
    BY <1>1
  <2>2. created[i] \notin Markup
    BY <1>8
  <2> QED
    BY <1>8, <2>1, <2>2
<1>10. Free(b, n, "trkpt") /\ Free(b, n, "time") /\ Free(b, n, "cell")
  BY <1>8 DEF Free
<1> QED
  BY <1>1, <1>6, <1>7, <1>9, <1>10, TrackWithoutPoints

\* What GpxSegment writes.
Segment ==
  (IF created = None THEN <<>>
   ELSE Fixed("name") \o EscapeXml(created) \o Fixed("end of name")) \o Fixed("trkseg")

(* The head of a segment has no points.                                    *)
LEMMA SegmentFacts ==
  ASSUME created \in Creations \cup {None}, NEW T
  PROVE  IsSequence(Segment) /\ TrackFacts(Segment, Len(Segment), {}, T)
<1>1. CASE created = None
  <2>1. IsSequence(<<>>) /\ Len(<<>>) = 0
    BY FixedIsSequence
  <2>2. TrackFacts(<<>>, 0, {}, T)
    <3>1. \A i : i \notin 1..0
      OBVIOUS
    <3>2. /\ TextPlain(<<>>, 0) /\ Free(<<>>, 0, "trkpt") /\ Free(<<>>, 0, "time")
          /\ Free(<<>>, 0, "cell")
      BY <3>1 DEF TextPlain, Free
    <3> QED
      BY <3>2, TrackWithoutPoints
  <2>3. TrackFacts(<<>>, Len(<<>>), {}, T)
    BY <2>1, <2>2
  <2>4. IsSequence(Fixed("trkseg")) /\ TrackFacts(Fixed("trkseg"), Len(Fixed("trkseg")), {}, T)
    BY TrackFixed
  <2>5. Segment = <<>> \o Fixed("trkseg")
    BY <1>1 DEF Segment
  <2> QED
    BY <2>1, <2>3, <2>4, <2>5, TrackHeads
<1>2. CASE created # None
  <2>1. created \in Seq(Markup \cup Plain)
    BY <1>2, ExportAssumption
  <2>2. PICK a, e, z, h : /\ a = Fixed("name") /\ e = EscapeXml(created) /\ z = Fixed("end of name")
                          /\ h = Fixed("trkseg")
    OBVIOUS
  <2>3. /\ IsSequence(a) /\ TrackFacts(a, Len(a), {}, T)
        /\ IsSequence(z) /\ TrackFacts(z, Len(z), {}, T)
        /\ IsSequence(h) /\ TrackFacts(h, Len(h), {}, T)
    BY <2>2, TrackFixed
  <2>4. IsSequence(e) /\ TrackFacts(e, Len(e), {}, T)
    BY <2>1, <2>2, EscapeFacts
  <2>5. IsSequence(a \o e) /\ TrackFacts(a \o e, Len(a \o e), {}, T)
    BY <2>3, <2>4, TrackHeads
  <2>6. IsSequence((a \o e) \o z) /\ TrackFacts((a \o e) \o z, Len((a \o e) \o z), {}, T)
    BY <2>3, <2>5, TrackHeads
  <2>7. IsSequence(((a \o e) \o z) \o h) /\ TrackFacts(((a \o e) \o z) \o h, Len(((a \o e) \o z) \o h), {}, T)
    BY <2>3, <2>6, TrackHeads
  <2>8. Segment = ((a \o e) \o z) \o h
    BY <1>2, <2>2 DEF Segment
  <2> QED
    BY <2>7, <2>8
<1> QED
  BY <1>1, <1>2

\* What GpxPoint writes for a located row.
Located(r) == Point(r) \o IF r \in timed THEN Time(r) ELSE <<>>

(* A point, and the time behind it if it has one.                          *)
LEMMA PointFacts ==
  ASSUME NEW r \in Nat
  PROVE  IsSequence(Located(r)) /\ TrackFacts(Located(r), Len(Located(r)), {r}, timed)
<1>1. PICK p, q, b : p = [tag |-> "trkpt", row |-> r] /\ q = [tag |-> "time", row |-> r]
                     /\ b = Located(r)
  OBVIOUS
<1>2. p.tag = "trkpt" /\ p.row = r /\ Key(p) = r /\ q.tag = "time" /\ q.row = r
  BY <1>1 DEF Key
<1>3. Point(r) = <<p>> /\ Time(r) = <<q>>
  BY <1>1 DEF Point, Time
<1>4. IsSequence(b)
  <2>1. IsSequence(IF r \in timed THEN Time(r) ELSE <<>>) /\ IsSequence(Point(r))
    BY FixedIsSequence
  <2> QED
    BY <1>1, <2>1, ConcatStaysSequence DEF Located
<1>5. CASE r \in timed
  <2>1. b = <<p>> \o <<q>>
    BY <1>1, <1>3, <1>5 DEF Located
  <2>2. Len(b) = 2 /\ b[1] = p /\ b[2] = q
    <3>1. <<p>> \in Seq({p, q}) /\ <<q>> \in Seq({p, q})
      OBVIOUS
    <3>2. Len(<<p>>) = 1 /\ Len(<<q>>) = 1 /\ <<p>>[1] = p /\ <<q>>[1] = q
      OBVIOUS
    <3> QED
      BY <2>1, <3>1, <3>2
  <2>3. \A i \in 1..2 : i = 1 \/ i = 2
    OBVIOUS
  <2>4. Keyed(b, 2, "trkpt", {r})
    <3>1. 1 \in 1..2
      OBVIOUS
    <3> QED
      BY <1>2, <2>2, <2>3, <3>1 DEF Keyed
  <2>5. Ordered(b, 2, "trkpt", Less)
    <3> SUFFICES ASSUME NEW i \in 1..2, NEW j \in 1..2, i < j, b[j].tag = "trkpt" PROVE FALSE
      BY DEF Ordered
    <3>1. j = 2
      OBVIOUS
    <3> QED
      BY <1>2, <2>2, <3>1
  <2>6. Follows(b, 2, timed)
    <3>1. 1 + 1 = 2 /\ 2 - 1 = 1 /\ 1 \in 1..2 /\ 2 \in 1..2
      OBVIOUS
    <3>2. \A i \in 1..2 : b[i].tag = "trkpt" => i + 1 \in 1..2 /\ b[i + 1].tag = "time"
      BY <1>2, <2>2, <2>3, <3>1
    <3>3. \A i \in 1..2 : b[i].tag = "time" =>
            i - 1 \in 1..2 /\ b[i - 1].tag = "trkpt" /\ b[i].row = b[i - 1].row /\ b[i].row \in timed
      BY <1>2, <1>5, <2>2, <2>3, <3>1
    <3> QED
      BY <3>2, <3>3 DEF Follows
  <2>7. TextPlain(b, 2) /\ Free(b, 2, "cell")
    BY <1>2, <2>2, <2>3 DEF TextPlain, Free
  <2> QED
    BY <1>1, <1>4, <2>2, <2>4, <2>5, <2>6, <2>7 DEF TrackFacts
<1>6. CASE r \notin timed
  <2>1. b = <<p>>
    BY <1>1, <1>3, <1>6 DEF Located
  <2>2. /\ Len(b) = 1 /\ b[1] = p
        /\ Keyed(b, 1, "trkpt", {r}) /\ Ordered(b, 1, "trkpt", Less) /\ Free(b, 1, "cell")
    BY <1>2, <2>1, SingleFacts
  <2>3. \A i \in 1..1 : i = 1
    OBVIOUS
  <2>4. Follows(b, 1, timed) /\ TextPlain(b, 1)
    BY <1>2, <1>6, <2>2, <2>3 DEF Follows, TextPlain
  <2> QED
    BY <1>1, <1>4, <2>2, <2>4 DEF TrackFacts
<1> QED
  BY <1>5, <1>6

-----------------------------------------------------------------------------
(* Parquet: the cells of the groups before row r, and of the columns       *)
(* before c of the group that starts there, in whole chunks.               *)
Done(r, c, w, R) ==
  {p \in (0..(R - 1)) \X (0..(w - 1)) : p[1] < r \/ (p[1] < r + GroupSize /\ p[2] < c)}

\* Rows of the group that starts at r in a table of R rows.
GroupOf(r, R) == IF R - r < GroupSize THEN R - r ELSE GroupSize

WholeChunk(s, i, R) ==
  /\ s[i].length \in 1..GroupSize /\ s[i].column \in Nat
  /\ s[i + 1].row \in Nat
  /\ s[i + 1].row % GroupSize = 0
  /\ s[i + 1].row + s[i].length <= R
  /\ s[i + 1].row + s[i].length < R => s[i].length = GroupSize
  /\ \A k \in 1..s[i].length : s[i + k] = CellOf(s[i + 1].row + k - 1, s[i].column)

ChunksWhole(s, n, R) ==
  \A i \in 1..n : s[i].tag = "chunk" => i + s[i].length \in 1..n /\ WholeChunk(s, i, R)

\* Every cell is in a chunk.
Covered(s, n) ==
  \A i \in 1..n : s[i].tag = "cell" => \E j \in 1..n : s[j].tag = "chunk" /\ i \in j..(j + s[j].length)

\* Every chunk starts before row r and column c.
Behind(s, n, r, c) ==
  \A i \in 1..n : s[i].tag = "chunk" =>
    s[i + 1].row < r \/ (s[i + 1].row = r /\ s[i].column < c)

ChunkOrder(s, n) ==
  \A i, j \in 1..n : i < j /\ s[i].tag = "chunk" /\ s[j].tag = "chunk" =>
    s[i + 1].row < s[j + 1].row \/ (s[i + 1].row = s[j + 1].row /\ s[i].column < s[j].column)

GroupFacts(s, n, r, c, w, R) ==
  /\ Keyed(s, n, "cell", Done(r, c, w, R)) /\ Ordered(s, n, "cell", Different)
  /\ ChunksWhole(s, n, R) /\ Covered(s, n) /\ Behind(s, n, r, c) /\ ChunkOrder(s, n)

\* b is a chunk of the column c: l rows from r on.
ChunkOf(b, r, c, l) ==
  /\ b[1] = [tag |-> "chunk", column |-> c, length |-> l]
  /\ \A k \in 1..l : b[1 + k] = CellOf(r + k - 1, c)

\* The next chunk starts at row r2 in column c2.
NextChunk(r, c, w, r2, c2) ==
  IF c + 1 = w THEN r2 = r + GroupSize /\ c2 = 0 ELSE r2 = r /\ c2 = c + 1

(* The cells of a chunk are done, and are what was left between.           *)
LEMMA ChunkCells ==
  ASSUME NEW w \in Nat, NEW R \in Nat, NEW r \in Nat, NEW c \in 0..(w - 1), NEW r2, NEW c2, NEW l,
         r < R, l = GroupOf(r, R), NextChunk(r, c, w, r2, c2)
  PROVE  /\ l \in 1..GroupSize /\ r + l <= R /\ (r + l < R => l = GroupSize)
         /\ Done(r2, c2, w, R) = Done(r, c, w, R) \cup Block(r, r + l, c, c + 1)
         /\ \A x \in Done(r, c, w, R) : \A y \in Block(r, r + l, c, c + 1) : <<x, y>> \in Different
<1>1. PICK g : g \in Nat \ {0} /\ g = GroupSize
  BY ExportAssumption
<1> g \in Nat \ {0}
  BY <1>1
<1>2. l = IF R - r < g THEN R - r ELSE g
  BY <1>1 DEF GroupOf
<1>3. l \in 1..g /\ r + l <= R /\ (r + l < R => l = g)
  BY <1>2
<1> l \in 1..g
  BY <1>3
<1>4. \A i, j : <<i, j>> \in Done(r, c, w, R) <=>
        i \in 0..(R - 1) /\ j \in 0..(w - 1) /\ (i < r \/ (i < r + g /\ j < c))
  BY <1>1 DEF Done
<1>5. \A i, j : <<i, j>> \in Done(r2, c2, w, R) <=>
        i \in 0..(R - 1) /\ j \in 0..(w - 1) /\ (i < r2 \/ (i < r2 + g /\ j < c2))
  BY <1>1 DEF Done
<1>6. \A i, j : <<i, j>> \in Block(r, r + l, c, c + 1) <=> i \in r..(r + l - 1) /\ j \in c..(c + 1 - 1)
  BY DEF Block
<1>7. ASSUME NEW i \in 0..(R - 1), NEW j \in 0..(w - 1)
      PROVE  (i < r2 \/ (i < r2 + g /\ j < c2))
               <=> (i < r \/ (i < r + g /\ j < c)) \/ (i \in r..(r + l - 1) /\ j \in c..(c + 1 - 1))
  <2>1. i \in r..(r + l - 1) <=> i >= r /\ i < r + g
    BY <1>3
  <2>2. j \in c..(c + 1 - 1) <=> j = c
    OBVIOUS
  <2>3. CASE c + 1 = w
    <3>1. r2 = r + g /\ c2 = 0 /\ j <= c
      BY <1>1, <2>3 DEF NextChunk
    <3> QED
      BY <2>1, <2>2, <3>1
  <2>4. CASE c + 1 # w
    <3>1. r2 = r /\ c2 = c + 1
      BY <2>4 DEF NextChunk
    <3> QED
      BY <2>1, <2>2, <3>1
  <2> QED
    BY <2>3, <2>4
<1>8. \A i, j : i \in r..(r + l - 1) /\ j \in c..(c + 1 - 1) => i \in 0..(R - 1) /\ j \in 0..(w - 1)
  BY <1>3
<1>9. \A i, j : <<i, j>> \in Done(r2, c2, w, R)
                  <=> <<i, j>> \in Done(r, c, w, R) \/ <<i, j>> \in Block(r, r + l, c, c + 1)
  <2> SUFFICES ASSUME NEW i, NEW j
               PROVE  <<i, j>> \in Done(r2, c2, w, R)
                        <=> <<i, j>> \in Done(r, c, w, R) \/ <<i, j>> \in Block(r, r + l, c, c + 1)
    OBVIOUS
  <2>1. CASE i \in 0..(R - 1) /\ j \in 0..(w - 1)
    BY <1>4, <1>5, <1>6, <1>7, <2>1, Zenon
  <2>2. CASE ~(i \in 0..(R - 1) /\ j \in 0..(w - 1))
    BY <1>4, <1>5, <1>6, <1>8, <2>2, Zenon
  <2> QED
    BY <2>1, <2>2
<1>10. /\ \A p \in Done(r2, c2, w, R) : \E i, j : p = <<i, j>>
       /\ \A p \in Done(r, c, w, R) : \E i, j : p = <<i, j>>
       /\ \A p \in Block(r, r + l, c, c + 1) : \E i, j : p = <<i, j>>
  BY DEF Done, Block
<1>11. Done(r2, c2, w, R) = Done(r, c, w, R) \cup Block(r, r + l, c, c + 1)
  <2>1. PICK X, Y, Z : /\ X = Done(r2, c2, w, R) /\ Y = Done(r, c, w, R)
                       /\ Z = Block(r, r + l, c, c + 1)
    OBVIOUS
  <2>2. \A i, j : <<i, j>> \in X <=> <<i, j>> \in Y \/ <<i, j>> \in Z
    BY <1>9, <2>1
  <2>3. \A p : p \in X \/ p \in Y \/ p \in Z => \E i, j : p = <<i, j>>
    BY <1>10, <2>1
  <2>4. ASSUME NEW p PROVE p \in X <=> p \in Y \/ p \in Z
    <3>1. CASE p \in X \/ p \in Y \/ p \in Z
      <4>1. PICK i, j : p = <<i, j>>
        BY <2>3, <3>1
      <4> QED
        BY <2>2, <4>1
    <3> QED
      BY <3>1
  <2>5. X = Y \cup Z
    BY <2>4
  <2> QED
    BY <2>1, <2>5
<1>12. ASSUME NEW x \in Done(r, c, w, R), NEW y \in Block(r, r + l, c, c + 1)
       PROVE  <<x, y>> \in Different
  <2>1. PICK i, j : x = <<i, j>>
    BY <1>10
  <2>2. PICK e, f : y = <<e, f>>
    BY <1>10
  <2>3. i \in Nat /\ j \in Nat /\ e \in Nat /\ f \in Nat /\ (i # e \/ j # f)
    <3>1. i \in 0..(R - 1) /\ j \in 0..(w - 1) /\ (i < r \/ (i < r + g /\ j < c))
      BY <1>4, <2>1
    <3>2. e \in r..(r + l - 1) /\ f \in c..(c + 1 - 1)
      BY <1>6, <2>2
    <3> QED
      BY <3>1, <3>2
  <2> QED
    BY <2>1, <2>2, <2>3, OrderFacts
<1> QED
  BY <1>1, <1>3, <1>11, <1>12

(* What a chunk holds.                                                     *)
LEMMA ChunkFacts ==
  ASSUME NEW r \in Nat, NEW c \in Nat, NEW l \in Nat, NEW b, ChunkOf(b, r, c, l)
  PROVE  /\ Keyed(b, l + 1, "cell", Block(r, r + l, c, c + 1))
         /\ Ordered(b, l + 1, "cell", Different)
         /\ b[1].tag = "chunk" /\ b[1].column = c /\ b[1].length = l
         /\ \A i \in 1..(l + 1) : i = 1 \/ \E k \in 1..l : i = 1 + k
         /\ \A k \in 1..l : b[1 + k].tag = "cell" /\ b[1 + k].row = r + k - 1
<1>1. b[1].tag = "chunk" /\ b[1].column = c /\ b[1].length = l
  BY DEF ChunkOf
<1>2. ASSUME NEW i \in 1..(l + 1), i # 1
      PROVE  \E k \in 1..l : i = 1 + k
  <2>1. i - 1 \in 1..l /\ i = 1 + (i - 1)
    BY <1>2
  <2> QED
    BY <2>1
<1>3. \A k \in 1..l : /\ b[1 + k].tag = "cell" /\ b[1 + k].row = r + k - 1
                      /\ Key(b[1 + k]) = <<r + k - 1, c>>
  BY CellFacts DEF ChunkOf
<1>4. Keyed(b, l + 1, "cell", Block(r, r + l, c, c + 1))
  <2>1. ASSUME NEW i \in 1..(l + 1), b[i].tag = "cell"
        PROVE  Key(b[i]) \in Block(r, r + l, c, c + 1)
    <3>1. PICK k \in 1..l : i = 1 + k
      BY <1>1, <1>2, <2>1
    <3>2. r + k - 1 \in r..(r + l - 1) /\ c \in c..(c + 1 - 1)
      OBVIOUS
    <3> QED
      BY <1>3, <3>1, <3>2 DEF Block
  <2>2. ASSUME NEW d \in Block(r, r + l, c, c + 1)
        PROVE  \E i \in 1..(l + 1) : b[i].tag = "cell" /\ Key(b[i]) = d
    <3>1. PICK e \in r..(r + l - 1), f \in c..(c + 1 - 1) : d = <<e, f>>
      BY DEF Block
    <3>2. PICK k \in 1..l : k = e - r + 1 /\ r + k - 1 = e /\ f = c
      <4>1. e - r + 1 \in 1..l /\ r + (e - r + 1) - 1 = e /\ f = c
        OBVIOUS
      <4> QED
        BY <4>1
    <3>3. 1 + k \in 1..(l + 1)
      OBVIOUS
    <3> QED
      BY <1>3, <3>1, <3>2, <3>3
  <2> QED
    BY <2>1, <2>2 DEF Keyed
<1>5. Ordered(b, l + 1, "cell", Different)
  <2> SUFFICES ASSUME NEW i \in 1..(l + 1), NEW j \in 1..(l + 1), i < j,
                      b[i].tag = "cell", b[j].tag = "cell"
               PROVE  <<Key(b[i]), Key(b[j])>> \in Different
    BY DEF Ordered
  <2>1. PICK k \in 1..l : i = 1 + k
    BY <1>1, <1>2
  <2>2. PICK m \in 1..l : j = 1 + m
    BY <1>1, <1>2
  <2>3. r + k - 1 \in Nat /\ r + m - 1 \in Nat /\ r + k - 1 # r + m - 1
    BY <2>1, <2>2
  <2>4. <<<<r + k - 1, c>>, <<r + m - 1, c>>>> \in Different
    BY <2>3, OrderFacts
  <2> QED
    BY <1>3, <2>1, <2>2, <2>4
<1> QED
  BY <1>1, <1>2, <1>3, <1>4, <1>5

(* One chunk more.                                                         *)
LEMMA ChunkJoins ==
  ASSUME NEW w \in Nat, NEW R \in Nat, NEW r \in Nat, NEW c \in 0..(w - 1), NEW r2, NEW c2, NEW l,
         r < R, l = GroupOf(r, R), NextChunk(r, c, w, r2, c2), r % GroupSize = 0,
         NEW n \in Nat, NEW s, NEW b, NEW t, ChunkOf(b, r, c, l), Joined(s, n, b, l + 1, t),
         GroupFacts(s, n, r, c, w, R)
  PROVE  GroupFacts(t, n + (l + 1), r2, c2, w, R)
<1>1. l \in 1..GroupSize /\ GroupSize \in Nat \ {0} /\ r + l <= R /\ (r + l < R => l = GroupSize)
  BY ChunkCells, ExportAssumption
<1>2. l \in Nat /\ c \in Nat /\ l + 1 \in Nat /\ l >= 1
  BY <1>1
<1> l \in Nat /\ c \in Nat /\ l + 1 \in Nat
  BY <1>2
<1>3. PICK N : N \in Nat /\ N = n + (l + 1)
  BY <1>2
<1> N \in Nat
  BY <1>3
<1>4. /\ Keyed(b, l + 1, "cell", Block(r, r + l, c, c + 1)) /\ Ordered(b, l + 1, "cell", Different)
      /\ b[1].tag = "chunk" /\ b[1].column = c /\ b[1].length = l
      /\ \A i \in 1..(l + 1) : i = 1 \/ \E k \in 1..l : i = 1 + k
      /\ \A k \in 1..l : b[1 + k].tag = "cell" /\ b[1 + k].row = r + k - 1
  BY <1>2, ChunkFacts
<1>5. Keyed(t, N, "cell", Done(r2, c2, w, R)) /\ Ordered(t, N, "cell", Different)
  <2>1. /\ Keyed(s, n, "cell", Done(r, c, w, R)) /\ Ordered(s, n, "cell", Different)
        /\ Done(r2, c2, w, R) = Done(r, c, w, R) \cup Block(r, r + l, c, c + 1)
        /\ \A x \in Done(r, c, w, R) : \A y \in Block(r, r + l, c, c + 1) : <<x, y>> \in Different
    <3>1. Keyed(s, n, "cell", Done(r, c, w, R)) /\ Ordered(s, n, "cell", Different)
      BY DEF GroupFacts
    <3>2. /\ Done(r2, c2, w, R) = Done(r, c, w, R) \cup Block(r, r + l, c, c + 1)
          /\ \A x \in Done(r, c, w, R) : \A y \in Block(r, r + l, c, c + 1) : <<x, y>> \in Different
      BY ONLY ChunkCells, r \in Nat, w \in Nat, R \in Nat, c \in 0..(w - 1), r < R, l = GroupOf(r, R),
         NextChunk(r, c, w, r2, c2)
    <3> QED
      BY <3>1, <3>2
  <2>2. Keyed(t, n + (l + 1), "cell", Done(r, c, w, R) \cup Block(r, r + l, c, c + 1))
    BY <1>2, <1>4, <2>1, KeyedJoin
  <2>3. Ordered(t, n + (l + 1), "cell", Different)
    BY <1>2, <1>4, <2>1, OrderedJoin
  <2> QED
    BY <1>3, <2>1, <2>2, <2>3
<1>6. \A i \in 1..n : t[i] = s[i]
  BY DEF Joined
<1>7. t[n + 1] = b[1] /\ \A k \in 1..l : t[(n + 1) + k] = b[1 + k]
  <2>1. \A k \in 1..(l + 1) : t[n + k] = b[k]
    BY DEF Joined
  <2>2. 1 \in 1..(l + 1)
    BY <1>2
  <2>3. \A k \in 1..l : 1 + k \in 1..(l + 1) /\ (n + 1) + k = n + (1 + k)
    OBVIOUS
  <2> QED
    BY <2>1, <2>2, <2>3
<1>8. \A i \in 1..N : i \in 1..n \/ i = n + 1 \/ \E k \in 1..l : i = (n + 1) + k
  <2> SUFFICES ASSUME NEW i \in 1..N, i \notin 1..n, i # n + 1
               PROVE  \E k \in 1..l : i = (n + 1) + k
    OBVIOUS
  <2>1. i - (n + 1) \in 1..l /\ i = (n + 1) + (i - (n + 1))
    BY <1>3
  <2> QED
    BY <2>1
<1>9. /\ \A i \in 1..n : i \in 1..N
      /\ n + 1 \in 1..N
      /\ (n + 1) + l \in 1..N
  BY <1>2, <1>3
\* Chunks are those there were and the new one.
<1>10. ASSUME NEW i \in 1..N, t[i].tag = "chunk"
       PROVE  (i \in 1..n /\ s[i].tag = "chunk" /\ t[i] = s[i]) \/ i = n + 1
  <2>1. \A k \in 1..l : t[(n + 1) + k].tag = "cell"
    BY <1>4, <1>7
  <2> QED
    BY <1>6, <1>8, <1>10, <2>1
\* What lies behind a chunk stays.
<1>11. ASSUME NEW i \in 1..n, s[i].tag = "chunk"
       PROVE  /\ i + s[i].length \in 1..n /\ WholeChunk(s, i, R) /\ WholeChunk(t, i, R)
              /\ t[i + 1] = s[i + 1] /\ t[i] = s[i]
  <2>1. i + s[i].length \in 1..n /\ WholeChunk(s, i, R)
    BY <1>11 DEF GroupFacts, ChunksWhole
  <2>2. PICK e \in 1..GroupSize : e = s[i].length
    BY <2>1 DEF WholeChunk
  <2>3. e \in Nat /\ e >= 1 /\ i + e <= n
    BY <1>1, <2>1, <2>2
  <2>4. t[i] = s[i]
    BY <1>6
  <2>5. \A k \in 1..e : i + k \in 1..n
    BY <2>3
  <2>6. \A k \in 1..e : t[i + k] = s[i + k]
    BY <1>6, <2>5
  <2>7. 1 \in 1..e
    BY <2>3
  <2>8. t[i + 1] = s[i + 1]
    BY <2>6, <2>7
  <2>9. WholeChunk(t, i, R)
    BY <2>1, <2>2, <2>4, <2>6, <2>8 DEF WholeChunk
  <2> QED
    BY <2>1, <2>4, <2>8, <2>9
<1>12. t[n + 1].length = l /\ t[n + 1].column = c /\ t[(n + 1) + 1].row = r /\ WholeChunk(t, n + 1, R)
  <2>1. t[n + 1].length = l /\ t[n + 1].column = c
    BY <1>4, <1>7
  <2>2. 1 \in 1..l
    BY <1>2
  <2>3. t[(n + 1) + 1].row = r + 1 - 1 /\ r + 1 - 1 = r
    BY <1>4, <1>7, <2>2
  <2>4. \A k \in 1..l : t[(n + 1) + k] = CellOf(r + k - 1, c)
    BY <1>7 DEF ChunkOf
  <2>5. t[(n + 1) + 1].row = r
    BY <2>3
  <2>6. WholeChunk(t, n + 1, R)
    BY <1>1, <2>1, <2>4, <2>5 DEF WholeChunk
  <2> QED
    BY <2>1, <2>5, <2>6
<1>13. ChunksWhole(t, N, R)
  <2> SUFFICES ASSUME NEW i \in 1..N, t[i].tag = "chunk"
               PROVE  i + t[i].length \in 1..N /\ WholeChunk(t, i, R)
    BY DEF ChunksWhole
  <2>1. CASE i \in 1..n /\ s[i].tag = "chunk" /\ t[i] = s[i]
    BY <1>9, <1>11, <2>1
  <2>2. CASE i = n + 1
    BY <1>9, <1>12, <2>2
  <2> QED
    BY <1>10, <2>1, <2>2
<1>14. Covered(t, N)
  <2> SUFFICES ASSUME NEW i \in 1..N, t[i].tag = "cell"
               PROVE  \E j \in 1..N : t[j].tag = "chunk" /\ i \in j..(j + t[j].length)
    BY DEF Covered
  <2>1. CASE i \in 1..n
    <3>1. PICK j \in 1..n : s[j].tag = "chunk" /\ i \in j..(j + s[j].length)
      BY <1>6, <2>1 DEF GroupFacts, Covered
    <3> QED
      BY <1>6, <1>9, <3>1
  <2>2. CASE \E k \in 1..l : i = (n + 1) + k
    <3>1. i \in (n + 1)..((n + 1) + l)
      BY <2>2
    <3>2. t[n + 1].tag = "chunk"
      BY <1>4, <1>7
    <3> QED
      BY <1>9, <1>12, <3>1, <3>2
  <2>3. i # n + 1
    BY <1>4, <1>7
  <2> QED
    BY <1>8, <2>1, <2>2, <2>3
\* The new chunk starts before the next, and the others before it.
<1>15. \A i \in 1..n : s[i].tag = "chunk" =>
         t[i + 1].row < r \/ (t[i + 1].row = r /\ t[i].column < c)
  BY <1>11 DEF GroupFacts, Behind
<1>16. (r2 = r /\ c2 = c + 1) \/ r2 = r + GroupSize
  BY DEF NextChunk
<1>17. Behind(t, N, r2, c2)
  <2> SUFFICES ASSUME NEW i \in 1..N, t[i].tag = "chunk"
               PROVE  t[i + 1].row < r2 \/ (t[i + 1].row = r2 /\ t[i].column < c2)
    BY DEF Behind
  <2>1. CASE i \in 1..n /\ s[i].tag = "chunk" /\ t[i] = s[i]
    <3>1. PICK e \in Nat, f \in Nat : e = t[i + 1].row /\ f = t[i].column
      BY <1>11, <2>1 DEF WholeChunk
    <3>2. e < r \/ (e = r /\ f < c)
      BY <1>15, <2>1, <3>1
    <3> QED
      BY <1>1, <1>16, <3>1, <3>2
  <2>2. CASE i = n + 1
    BY <1>1, <1>12, <1>16, <2>2
  <2> QED
    BY <1>10, <2>1, <2>2
<1>18. ChunkOrder(t, N)
  <2> SUFFICES ASSUME NEW i \in 1..N, NEW j \in 1..N, i < j, t[i].tag = "chunk", t[j].tag = "chunk"
               PROVE  \/ t[i + 1].row < t[j + 1].row
                      \/ t[i + 1].row = t[j + 1].row /\ t[i].column < t[j].column
    BY DEF ChunkOrder
  <2>1. i \in 1..n /\ s[i].tag = "chunk" /\ t[i] = s[i]
    <3>1. i # n + 1
      <4> SUFFICES ASSUME i = n + 1 PROVE FALSE
        OBVIOUS
      <4>1. j \notin 1..n /\ j # n + 1
        OBVIOUS
      <4> QED
        BY <1>10, <4>1
    <3> QED
      BY <1>10, <3>1
  <2>2. CASE j \in 1..n /\ s[j].tag = "chunk" /\ t[j] = s[j]
    <3>1. t[i + 1] = s[i + 1] /\ t[j + 1] = s[j + 1]
      BY <1>11, <2>1, <2>2
    <3> QED
      BY <2>1, <2>2, <3>1 DEF GroupFacts, ChunkOrder
  <2>3. CASE j = n + 1
    BY <1>12, <1>15, <2>1, <2>3
  <2> QED
    BY <1>10, <2>2, <2>3
<1> QED
  BY <1>3, <1>5, <1>13, <1>14, <1>17, <1>18 DEF GroupFacts

(* A stretch of a file without cells and chunks.                           *)
LEMMA GroupStays ==
  ASSUME NEW w, NEW R, NEW r, NEW c,
         NEW n \in Nat, NEW m \in Nat, NEW s, NEW b, NEW t, Joined(s, n, b, m, t),
         GroupFacts(s, n, r, c, w, R), Free(b, m, "cell"), Free(b, m, "chunk")
  PROVE  GroupFacts(t, n + m, r, c, w, R)
<1>1. Keyed(t, n + m, "cell", Done(r, c, w, R)) /\ Ordered(t, n + m, "cell", Different)
  BY JoinFree DEF GroupFacts
<1>2. \A i \in 1..n : t[i] = s[i] /\ i \in 1..(n + m)
  BY DEF Joined
<1>3. \A i \in 1..(n + m) : t[i].tag \in {"chunk", "cell"} => i \in 1..n
  <2>1. \A k \in 1..m : t[n + k].tag \notin {"chunk", "cell"}
    BY DEF Joined, Free
  <2> QED
    BY <2>1, Places
<1>4. ASSUME NEW i \in 1..n, s[i].tag = "chunk"
      PROVE  i + s[i].length \in 1..n /\ WholeChunk(t, i, R) /\ t[i + 1] = s[i + 1]
  <2>1. i + s[i].length \in 1..n /\ WholeChunk(s, i, R)
    BY <1>4 DEF GroupFacts, ChunksWhole
  <2>2. PICK e \in 1..GroupSize : e = s[i].length
    BY <2>1 DEF WholeChunk
  <2>3. e \in Nat /\ e >= 1 /\ i + e <= n
    BY <2>1, <2>2, ExportAssumption
  <2>4. \A k \in 1..e : i + k \in 1..n
    BY <2>3
  <2>5. \A k \in 1..e : t[i + k] = s[i + k]
    BY <1>2, <2>4
  <2>6. 1 \in 1..e
    BY <2>3
  <2>7. t[i + 1] = s[i + 1] /\ t[i] = s[i]
    BY <1>2, <2>5, <2>6
  <2> QED
    BY <2>1, <2>2, <2>5, <2>7 DEF WholeChunk
<1>5. ChunksWhole(t, n + m, R)
  <2> SUFFICES ASSUME NEW i \in 1..(n + m), t[i].tag = "chunk"
               PROVE  i + t[i].length \in 1..(n + m) /\ WholeChunk(t, i, R)
    BY DEF ChunksWhole
  <2>1. i \in 1..n /\ t[i] = s[i]
    BY <1>2, <1>3
  <2> QED
    BY <1>2, <1>4, <2>1
<1>6. Covered(t, n + m)
  <2> SUFFICES ASSUME NEW i \in 1..(n + m), t[i].tag = "cell"
               PROVE  \E j \in 1..(n + m) : t[j].tag = "chunk" /\ i \in j..(j + t[j].length)
    BY DEF Covered
  <2>1. i \in 1..n /\ s[i].tag = "cell"
    BY <1>2, <1>3
  <2>2. PICK j \in 1..n : s[j].tag = "chunk" /\ i \in j..(j + s[j].length)
    BY <2>1 DEF GroupFacts, Covered
  <2> QED
    BY <1>2, <2>2
<1>7. Behind(t, n + m, r, c)
  <2> SUFFICES ASSUME NEW i \in 1..(n + m), t[i].tag = "chunk"
               PROVE  t[i + 1].row < r \/ (t[i + 1].row = r /\ t[i].column < c)
    BY DEF Behind
  <2>1. i \in 1..n /\ t[i] = s[i]
    BY <1>2, <1>3
  <2> QED
    BY <1>4, <2>1 DEF GroupFacts, Behind
<1>8. ChunkOrder(t, n + m)
  <2> SUFFICES ASSUME NEW i \in 1..(n + m), NEW j \in 1..(n + m), i < j,
                      t[i].tag = "chunk", t[j].tag = "chunk"
               PROVE  \/ t[i + 1].row < t[j + 1].row
                      \/ t[i + 1].row = t[j + 1].row /\ t[i].column < t[j].column
    BY DEF ChunkOrder
  <2>1. i \in 1..n /\ t[i] = s[i] /\ j \in 1..n /\ t[j] = s[j]
    BY <1>2, <1>3
  <2> QED
    BY <1>4, <2>1 DEF GroupFacts, ChunkOrder
<1> QED
  BY <1>1, <1>5, <1>6, <1>7, <1>8 DEF GroupFacts

(* Before the first chunk.                                                 *)
LEMMA GroupStarts ==
  ASSUME NEW w \in Nat, NEW R \in Nat, NEW n \in Nat, NEW s,
         Free(s, n, "cell"), Free(s, n, "chunk")
  PROVE  GroupFacts(s, n, 0, 0, w, R)
<1>1. Done(0, 0, w, R) = {}
  <2>1. \A p \in (0..(R - 1)) \X (0..(w - 1)) : ~(p[1] < 0) /\ ~(p[2] < 0)
    OBVIOUS
  <2> QED
    BY <2>1 DEF Done
<1>2. Keyed(s, n, "cell", {}) /\ Ordered(s, n, "cell", Different)
  BY FreeIsKeyed
<1> QED
  BY <1>1, <1>2 DEF GroupFacts, ChunksWhole, Covered, Behind, ChunkOrder, Free

-----------------------------------------------------------------------------
(* What an encoder was given, by a call that writes these tokens.          *)
LEMMA EmitFacts ==
  ASSUME IsSequence(emitted), NEW tokens, IsSequence(tokens), Emit(tokens) \/ Close(tokens),
         NEW n, NEW m, n = Len(emitted), m = Len(tokens)
  PROVE  /\ n \in Nat /\ m \in Nat /\ IsSequence(emitted') /\ Len(emitted') = n + m
         /\ Joined(emitted, n, tokens, m, emitted')
<1>1. emitted' = emitted \o tokens
  BY DEF Emit, Close
<1> QED
  BY <1>1, AppendJoins, ConcatStaysSequence

\* Where the export is; it is finished at the end of the recording.
Stages ==
  /\ format \in Format /\ stage \in {"opening", "name", "rows"} /\ result \in Outcome
  /\ stage = "opening" => emitted = <<>> /\ row = 0 /\ column = 0
  /\ format # "gpx" => stage # "name"
  /\ result = "Ok" => stage = "rows" /\ row >= rows

(* A call returns nothing or an error; the last may succeed.               *)
LEMMA CallResults ==
  ASSUME NEW tokens
  PROVE  /\ Emit(tokens) => result' \in {None, "Io"} /\ UNCHANGED recording
         /\ Close(tokens) => result' \in {"Ok", "Io"} /\ UNCHANGED recording
<1>1. ASSUME Emit(tokens) PROVE result' \in {None, "Io"}
  <2>1. result = None /\ \E n : HandOver(buffer \o tokens, n)
    BY <1>1 DEF Emit
  <2>2. UNCHANGED result \/ result' = "Io"
    BY <2>1 DEF HandOver
  <2> QED
    BY <2>1, <2>2
<1> QED
  BY <1>1 DEF Emit, Close

(* No step changes the recording, and each keeps to the stages.            *)
LEMMA StagesStep ==
  ASSUME Place, Stages, [Next]_vars
  PROVE  UNCHANGED recording /\ Stages'
<1> USE DEF Stages, Outcome
<1>2. CASE UNCHANGED vars
  BY <1>2 DEF vars, recording
<1>3. CASE NoChannels \/ NoTrackPoints
  BY <1>3, ExportAssumption DEF NoChannels, NoTrackPoints, Refuse, At, recording
<1>4. CASE \/ CsvHeader \/ CsvRecord \/ GpxPreamble \/ GpxSegment \/ ParquetOpen \/ ParquetColumn
           \/ SerdeFields \/ SerdeElement
  <2>1. \E tokens : Emit(tokens)
    BY <1>4 DEF CsvHeader, CsvRecord, GpxPreamble, GpxSegment, ParquetOpen, ParquetColumn,
       SerdeFields, SerdeElement
  <2>2. UNCHANGED recording /\ result' \in {None, "Io"}
    BY <2>1, CallResults
  <2>3. stage' \in {"name", "rows"} /\ (format # "gpx" => stage' # "name")
    BY <1>4 DEF CsvHeader, CsvRecord, GpxPreamble, GpxSegment, ParquetOpen, ParquetColumn,
       SerdeFields, SerdeElement, At
  <2> QED
    BY <2>2, <2>3, ExportAssumption DEF recording
<1>5. CASE GpxPoint
  <2>1. stage' = "rows" /\ format = "gpx" /\ stage = "rows"
    BY <1>5 DEF GpxPoint, At
  <2>2. UNCHANGED recording /\ result' \in {None, "Io"}
    <3>1. CASE row \in located
      BY <1>5, <3>1, CallResults DEF GpxPoint
    <3>2. CASE row \notin located
      BY <1>5, <3>2 DEF GpxPoint
    <3> QED
      BY <3>1, <3>2
  <2> QED
    BY <2>1, <2>2, ExportAssumption DEF recording
<1>6. CASE CsvFlush \/ GpxFooter \/ ParquetClose \/ SerdeEnd
  <2>1. \E tokens : Close(tokens)
    BY <1>6 DEF CsvFlush, GpxFooter, ParquetClose, SerdeEnd
  <2>2. UNCHANGED recording /\ result' \in {"Ok", "Io"}
    BY <2>1, CallResults
  <2>3. stage = "rows" /\ stage' = "rows" /\ UNCHANGED <<row, column>> /\ row >= rows
    <3>1. /\ stage = "rows" /\ stage' = stage /\ UNCHANGED <<row, column>>
          /\ row = rows \/ row >= rows
      BY <1>6 DEF CsvFlush, GpxFooter, ParquetClose, SerdeEnd, At
    <3>2. rows >= rows
      BY DEF Place
    <3> QED
      BY <3>1, <3>2
  <2> QED
    BY <2>2, <2>3, ExportAssumption DEF recording
<1> QED
  BY <1>2, <1>3, <1>4, <1>5, <1>6 DEF Next

-----------------------------------------------------------------------------
(* CSV and serde: the rows so far, behind their names.                     *)
RowsInv ==
  format \in {"csv", "serde"} =>
    /\ row <= rows /\ column = 0
    /\ stage = "rows" =>
         /\ HeadFacts(emitted, Len(emitted), width)
         /\ TableFacts(emitted, Len(emitted), row, width)
         /\ format = "serde" => CountFacts(emitted, Len(emitted), rows)

(* A record keeps the names in front and adds its row.                     *)
LEMMA RecordStep ==
  ASSUME Place, IsSequence(emitted), RowsInv, format \in {"csv", "serde"}, stage = "rows",
         row < rows, Emit(Record(row)), row' = row + 1, UNCHANGED <<stage, column>>
  PROVE  RowsInv'
<1>1. PICK s, t, n, m : s = emitted /\ t = emitted' /\ n = Len(emitted) /\ m = Len(Record(row))
  OBVIOUS
<1>2. UNCHANGED <<format, width, rows>>
  BY DEF Emit, recording
<1>3. IsSequence(Record(row)) /\ m = width /\ width \in Nat /\ rows \in Nat /\ row \in Nat
  BY <1>1, RecordIsSequence, RecordFacts DEF Place
<1>4. n \in Nat /\ m \in Nat /\ Len(t) = n + m /\ Joined(s, n, Record(row), width, t)
  BY <1>1, <1>3, EmitFacts
<1>5. /\ HeadFacts(s, n, width) /\ TableFacts(s, n, row, width)
      /\ format = "serde" => CountFacts(s, n, rows)
  BY <1>1 DEF RowsInv
<1>6. TableFacts(t, n + width, row + 1, width)
  BY <1>3, <1>4, <1>5, RecordJoins
<1>7. Free(Record(row), width, "channel") /\ Free(Record(row), width, "samples")
  BY <1>3, RecordFacts
<1>8. /\ HeadFacts(t, n + width, width)
      /\ format = "serde" => CountFacts(t, n + width, rows)
  BY <1>3, <1>4, <1>5, <1>7, HeadStays
<1>9. /\ HeadFacts(emitted', Len(emitted'), width') /\ TableFacts(emitted', Len(emitted'), row', width')
      /\ format' = "serde" => CountFacts(emitted', Len(emitted'), rows')
  BY <1>1, <1>2, <1>3, <1>4, <1>6, <1>8
<1>10. row' <= rows' /\ column' = 0
  BY <1>2, <1>3 DEF RowsInv
<1> QED
  BY <1>9, <1>10 DEF RowsInv

(* The last call adds nothing of the table.                                *)
LEMMA TableEndStep ==
  ASSUME Place, IsSequence(emitted), RowsInv, format \in {"csv", "serde"}, stage = "rows",
         NEW tokens, IsSequence(tokens), Free(tokens, Len(tokens), "cell"),
         Free(tokens, Len(tokens), "channel"), Free(tokens, Len(tokens), "samples"),
         Close(tokens), UNCHANGED <<stage, row, column>>
  PROVE  RowsInv'
<1>1. PICK s, t, n, m : s = emitted /\ t = emitted' /\ n = Len(emitted) /\ m = Len(tokens)
  OBVIOUS
<1>2. UNCHANGED <<format, width, rows>>
  BY DEF Close, recording
<1>3. n \in Nat /\ m \in Nat /\ Len(t) = n + m /\ Joined(s, n, tokens, m, t)
  BY <1>1, EmitFacts
<1>4. /\ HeadFacts(s, n, width) /\ TableFacts(s, n, row, width)
      /\ format = "serde" => CountFacts(s, n, rows)
  BY <1>1 DEF RowsInv
<1>5. width \in Nat /\ rows \in Nat /\ row \in Nat
  BY DEF Place
<1>6. TableFacts(t, n + m, row, width)
  BY <1>1, <1>3, <1>4, <1>5, TableStays
<1>7. HeadFacts(t, n + m, width) /\ (format = "serde" => CountFacts(t, n + m, rows))
  BY <1>1, <1>3, <1>4, <1>5, HeadStays
<1>8. /\ HeadFacts(emitted', Len(emitted'), width') /\ TableFacts(emitted', Len(emitted'), row', width')
      /\ format' = "serde" => CountFacts(emitted', Len(emitted'), rows')
  BY <1>1, <1>2, <1>3, <1>6, <1>7
<1>9. row' <= rows' /\ column' = 0
  BY <1>2 DEF RowsInv
<1> QED
  BY <1>8, <1>9 DEF RowsInv

(* The head of a table.                                                    *)
LEMMA TableHeadStep ==
  ASSUME Place, Stages, format \in {"csv", "serde"}, stage = "opening",
         CsvHeader \/ SerdeFields
  PROVE  RowsInv'
<1>0. width \in Nat /\ rows \in Nat
  BY DEF Place
<1>1. emitted = <<>> /\ row = 0 /\ column = 0 /\ IsSequence(emitted)
  BY FixedIsSequence DEF Stages
<1>2. CASE CsvHeader
  <2>1. format = "csv" /\ Emit(Names) /\ stage' = "rows" /\ UNCHANGED <<row, column>>
    BY <1>2 DEF CsvHeader, At
  <2>2. UNCHANGED <<format, width, rows>> /\ emitted' = <<>> \o Names
    BY <1>1, <2>1 DEF Emit, recording
  <2>3. IsSequence(Names) /\ Len(Names) = width
    BY <1>0, RecordIsSequence, NamesFacts
  <2>4. emitted' = Names
    BY <2>2, <2>3 DEF IsSequence
  <2>5. HeadFacts(Names, width, width) /\ TableFacts(Names, width, 0, width)
    BY <1>0, NamesHead
  <2>6. /\ HeadFacts(emitted', Len(emitted'), width')
        /\ TableFacts(emitted', Len(emitted'), row', width')
    BY <1>1, <2>1, <2>2, <2>3, <2>4, <2>5
  <2>7. row' <= rows' /\ column' = 0 /\ format' # "serde"
    BY <1>0, <1>1, <2>1, <2>2
  <2> QED
    BY <2>6, <2>7 DEF RowsInv
<1>3. CASE SerdeFields
  <2>1. PICK b : b = Fixed("header") \o Names \o <<SamplesToken>>
    OBVIOUS
  <2>2. Emit(b) /\ stage' = "rows" /\ UNCHANGED <<row, column>>
    BY <1>3, <2>1 DEF SerdeFields, At, SamplesToken
  <2>3. UNCHANGED <<format, width, rows>> /\ emitted' = <<>> \o b
    BY <1>1, <2>2 DEF Emit, recording
  <2>4. /\ IsSequence(b) /\ Len(b) = width + 2
        /\ HeadFacts(b, width + 2, width) /\ TableFacts(b, width + 2, 0, width)
        /\ CountFacts(b, width + 2, rows)
    BY <1>0, <2>1, FieldsHead
  <2>5. emitted' = b
    BY <2>3, <2>4 DEF IsSequence
  <2>6. /\ HeadFacts(emitted', Len(emitted'), width')
        /\ TableFacts(emitted', Len(emitted'), row', width')
        /\ CountFacts(emitted', Len(emitted'), rows')
    BY <1>1, <2>2, <2>3, <2>4, <2>5
  <2>7. row' <= rows' /\ column' = 0
    BY <1>0, <1>1, <2>2, <2>3
  <2> QED
    BY <2>6, <2>7 DEF RowsInv
<1> QED
  BY <1>2, <1>3

(* Every step keeps what CSV and serde wrote.                              *)
LEMMA RowsStep ==
  ASSUME Place, Stages, IsSequence(emitted), RowsInv, [Next]_vars
  PROVE  RowsInv'
<1>1. UNCHANGED recording
  BY StagesStep
<1>2. CASE format \notin {"csv", "serde"}
  BY <1>1, <1>2 DEF RowsInv, recording
<1> SUFFICES ASSUME format \in {"csv", "serde"} PROVE RowsInv'
  BY <1>2
<1>3. CASE UNCHANGED <<recording, stage, row, column, emitted>>
  BY <1>3 DEF RowsInv, recording
<1>4. CASE CsvHeader \/ SerdeFields
  <2>1. stage = "opening"
    BY <1>4 DEF CsvHeader, SerdeFields, At
  <2> QED
    BY <1>4, <2>1, TableHeadStep
<1>5. CASE CsvRecord \/ SerdeElement
  BY <1>5, RecordStep DEF CsvRecord, SerdeElement, At
<1>6. CASE CsvFlush
  <2>1. IsSequence(<<>>) /\ \A i : i \notin 1..Len(<<>>)
    BY FixedIsSequence
  <2>2. /\ Free(<<>>, Len(<<>>), "cell") /\ Free(<<>>, Len(<<>>), "channel")
        /\ Free(<<>>, Len(<<>>), "samples")
    BY <2>1 DEF Free
  <2> QED
    BY <1>6, <2>1, <2>2, TableEndStep DEF CsvFlush, At
<1>7. CASE SerdeEnd
  <2>1. PICK b : b = Fixed("end")
    OBVIOUS
  <2>2. IsSequence(b) /\ Len(b) = 1 /\ Free(b, 1, "cell") /\ Free(b, 1, "channel") /\ Free(b, 1, "samples")
    BY <2>1, FixedFacts
  <2> QED
    BY <1>7, <2>1, <2>2, TableEndStep DEF SerdeEnd, At
<1>8. CASE NoChannels \/ NoTrackPoints \/ UNCHANGED vars
  <2>1. UNCHANGED <<recording, stage, row, column, emitted>>
    BY <1>8 DEF NoChannels, NoTrackPoints, Refuse, vars
  <2> QED
    BY <1>3, <2>1
<1>9. ~(GpxPreamble \/ GpxSegment \/ GpxPoint \/ GpxFooter \/ ParquetOpen \/ ParquetColumn \/ ParquetClose)
  BY DEF GpxPreamble, GpxSegment, GpxPoint, GpxFooter, ParquetOpen, ParquetColumn, ParquetClose, At
<1> QED
  BY <1>4, <1>5, <1>6, <1>7, <1>8, <1>9 DEF Next

-----------------------------------------------------------------------------
(* GPX: the located rows so far.                                           *)
TrackInv ==
  format = "gpx" =>
    /\ row <= rows /\ column = 0 /\ \A x \in located : x \in Nat /\ x < rows
    /\ stage # "opening" => TrackFacts(emitted, Len(emitted), {x \in located : x < row}, timed)

(* A stretch without points keeps the track.                               *)
LEMMA TrackPartStep ==
  ASSUME Place, IsSequence(emitted), TrackInv, format = "gpx", stage # "opening",
         NEW tokens, IsSequence(tokens), TrackFacts(tokens, Len(tokens), {}, timed),
         Emit(tokens) \/ Close(tokens), UNCHANGED <<row, column>>
  PROVE  TrackInv'
<1>1. PICK s, t, n, m, D : /\ s = emitted /\ t = emitted' /\ n = Len(emitted) /\ m = Len(tokens)
                           /\ D = {x \in located : x < row}
  OBVIOUS
<1>2. UNCHANGED recording
  BY CallResults
<1>3. n \in Nat /\ m \in Nat /\ Len(t) = n + m /\ Joined(s, n, tokens, m, t)
  BY <1>1, EmitFacts
<1>4. TrackFacts(s, n, D, timed) /\ TrackFacts(tokens, m, {}, timed)
  BY <1>1 DEF TrackInv
<1>5. \A x \in D : \A y \in {} : <<x, y>> \in Less
  OBVIOUS
<1>6. TrackFacts(t, n + m, D \cup {}, timed) /\ D \cup {} = D
  BY <1>3, <1>4, <1>5, TrackJoins
<1>7. TrackFacts(emitted', Len(emitted'), {x \in located : x < row}, timed)
  BY <1>1, <1>3, <1>6
<1> QED
  BY <1>2, <1>7 DEF TrackInv, recording

(* A located row adds its point.                                           *)
LEMMA TrackPointStep ==
  ASSUME Place, IsSequence(emitted), TrackInv, GpxPoint
  PROVE  TrackInv'
<1>0. format = "gpx" /\ stage = "rows" /\ row < rows /\ row' = row + 1 /\ UNCHANGED <<stage, column>>
  BY DEF GpxPoint, At
<1>1. PICK s, t, n, D, r : /\ s = emitted /\ t = emitted' /\ n = Len(emitted)
                           /\ D = {x \in located : x < row} /\ r = row
  OBVIOUS
<1>2. /\ r \in Nat /\ rows \in Nat /\ TrackFacts(s, n, D, timed)
      /\ \A x \in located : x \in Nat /\ x < rows
  BY <1>0, <1>1 DEF TrackInv, Place
<1> r \in Nat
  BY <1>2
<1>3. \A x \in located : x < r + 1 <=> x < r \/ x = r
  BY <1>2
<1>4. UNCHANGED recording /\ TrackFacts(emitted', Len(emitted'), {x \in located : x < r + 1}, timed)
  <2>1. CASE r \in located
    <3>1. Emit(Located(r))
      BY <1>1, <2>1 DEF GpxPoint, Located
    <3>2. PICK b, m : b = Located(r) /\ m = Len(b)
      OBVIOUS
    <3>3. IsSequence(b) /\ TrackFacts(b, m, {r}, timed)
      BY <3>2, PointFacts
    <3>4. UNCHANGED recording
      BY <3>1, CallResults
    <3>5. n \in Nat /\ m \in Nat /\ Len(t) = n + m /\ Joined(s, n, b, m, t)
      BY <1>1, <3>1, <3>2, <3>3, EmitFacts
    <3>6. \A x \in D : \A y \in {r} : <<x, y>> \in Less
      BY <1>1, <1>2, OrderFacts
    <3>7. TrackFacts(t, n + m, D \cup {r}, timed)
      BY <1>2, <3>3, <3>5, <3>6, TrackJoins
    <3>8. D \cup {r} = {x \in located : x < r + 1}
      BY <1>1, <1>3, <2>1, Zenon
    <3> QED
      BY <1>1, <3>4, <3>5, <3>7, <3>8
  <2>2. CASE r \notin located
    <3>1. UNCHANGED <<recording, emitted>>
      BY <1>1, <2>2 DEF GpxPoint
    <3>2. D = {x \in located : x < r + 1}
      BY <1>1, <1>3, <2>2, Zenon
    <3> QED
      BY <1>1, <1>2, <3>1, <3>2
  <2> QED
    BY <2>1, <2>2
<1>5. row' <= rows' /\ column' = 0 /\ row' = r + 1
  BY <1>0, <1>1, <1>2, <1>4 DEF TrackInv, recording
<1> QED
  BY <1>2, <1>4, <1>5 DEF TrackInv, recording

(* Every step keeps the track.                                             *)
LEMMA TrackStep ==
  ASSUME Place, Stages, IsSequence(emitted), TrackInv, [Next]_vars
  PROVE  TrackInv'
<1>1. UNCHANGED recording
  BY StagesStep
<1>2. CASE format # "gpx"
  BY <1>1, <1>2 DEF TrackInv, recording
<1> SUFFICES ASSUME format = "gpx" PROVE TrackInv'
  BY <1>2
<1>3. CASE NoChannels \/ NoTrackPoints \/ UNCHANGED vars
  <2>1. UNCHANGED <<recording, stage, row, column, emitted>>
    BY <1>3 DEF NoChannels, NoTrackPoints, Refuse, vars
  <2> QED
    BY <2>1 DEF TrackInv, recording
<1>4. CASE GpxPreamble
  <2>1. stage = "opening" /\ Emit(Fixed("trk")) /\ stage' = "name" /\ UNCHANGED <<row, column>>
    BY <1>4 DEF GpxPreamble, At
  <2>2. emitted = <<>> /\ row = 0 /\ row \in Nat /\ rows \in Nat
    BY <2>1 DEF Stages, Place
  <2>3. PICK b : b = Fixed("trk") /\ IsSequence(b) /\ TrackFacts(b, Len(b), {}, timed)
    BY TrackFixed
  <2>4. emitted' = b
    <3>1. emitted' = <<>> \o b
      BY <2>1, <2>2, <2>3 DEF Emit
    <3> QED
      BY <2>3, <3>1 DEF IsSequence
  <2>5. {x \in located : x < row} = {}
    BY <2>2 DEF TrackInv
  <2>6. TrackFacts(emitted', Len(emitted'), {x \in located : x < row}, timed)
    BY <2>3, <2>4, <2>5
  <2> QED
    BY <1>1, <2>1, <2>6 DEF TrackInv, recording
<1>5. CASE GpxSegment
  <2>1. stage = "name" /\ Emit(Segment) /\ UNCHANGED <<row, column>>
    BY <1>5 DEF GpxSegment, At, Segment
  <2>2. IsSequence(Segment) /\ TrackFacts(Segment, Len(Segment), {}, timed)
    BY SegmentFacts DEF Place
  <2> QED
    BY <2>1, <2>2, TrackPartStep
<1>6. CASE GpxPoint
  BY <1>6, TrackPointStep
<1>7. CASE GpxFooter
  <2>1. stage = "rows" /\ Close(Fixed("end of trk")) /\ UNCHANGED <<row, column>>
    BY <1>7 DEF GpxFooter, At
  <2>2. /\ IsSequence(Fixed("end of trk")) /\ Len(Fixed("end of trk")) = 1
        /\ TrackFacts(Fixed("end of trk"), 1, {}, timed)
    BY TrackFixed
  <2> QED
    BY <2>1, <2>2, TrackPartStep
<1>8. ~(CsvHeader \/ CsvRecord \/ CsvFlush \/ ParquetOpen \/ ParquetColumn \/ ParquetClose
        \/ SerdeFields \/ SerdeElement \/ SerdeEnd)
  BY DEF CsvHeader, CsvRecord, CsvFlush, ParquetOpen, ParquetColumn, ParquetClose, SerdeFields,
     SerdeElement, SerdeEnd, At
<1> QED
  BY <1>3, <1>4, <1>5, <1>6, <1>7, <1>8 DEF Next

-----------------------------------------------------------------------------
(* Parquet: the chunks so far; groups start at multiples of their size.    *)
ChunkInv ==
  format = "parquet" =>
    /\ row <= rows + GroupSize - 1
    /\ stage = "rows" =>
         /\ width > 0 /\ column \in 0..(width - 1) /\ row % GroupSize = 0
         /\ GroupFacts(emitted, Len(emitted), row, column, width, rows)

(* The next multiple of the size of a group.                               *)
LEMMA NextGroup ==
  ASSUME NEW r \in Nat, r % GroupSize = 0
  PROVE  r + GroupSize \in Nat /\ (r + GroupSize) % GroupSize = 0
<1>1. PICK g : g \in Nat \ {0} /\ g = GroupSize
  BY ExportAssumption
<1> g \in Nat \ {0}
  BY <1>1
<1>2. PICK q : q \in Nat /\ r = q * g
  <2>1. r \div g \in Nat /\ r = g * (r \div g) + (r % g)
    OBVIOUS
  <2>2. r = (r \div g) * g
    BY <1>1, <2>1
  <2> QED
    BY <2>1, <2>2
<1> q \in Nat
  BY <1>2
<1>3. q + 1 \in Nat /\ (q + 1) * g = q * g + g
  BY DistributeLeft
<1>4. 0 \in 0..(g - 1) /\ (q + 1) * g + 0 = r + g
  BY <1>2, <1>3
<1>5. ((q + 1) * g + 0) % g = 0
  BY <1>3, <1>4, IndexFacts
<1> QED
  BY <1>1, <1>4, <1>5

\* What ParquetColumn writes.
ChunkTokens ==
  <<[tag |-> "chunk", column |-> column, length |-> GroupRows(row)]>>
    \o [i \in 1..GroupRows(row) |-> Value((row + i - 1) * width + column)]

(* That is a chunk.                                                        *)
LEMMA TokensAreChunk ==
  ASSUME Place, row < rows, column \in 0..(width - 1), NEW l, l = GroupOf(row, rows)
  PROVE  /\ IsSequence(ChunkTokens) /\ Len(ChunkTokens) = l + 1
         /\ ChunkOf(ChunkTokens, row, column, l)
<1>1. GroupRows(row) = l
  BY DEF GroupRows, GroupOf
<1>2. l \in Nat /\ row \in Nat /\ width \in Nat
  <2>1. rows - row \in Nat /\ GroupSize \in Nat
    BY ExportAssumption DEF Place
  <2> QED
    BY <2>1 DEF Place, GroupOf
<1>3. PICK head, cells : /\ head = [tag |-> "chunk", column |-> column, length |-> l]
                         /\ cells = [i \in 1..l |-> Value((row + i - 1) * width + column)]
  OBVIOUS
<1>4. IsSequence(<<head>>) /\ Len(<<head>>) = 1 /\ <<head>>[1] = head
  BY SingleFacts
<1>5. IsSequence(cells) /\ Len(cells) = l
  <2>1. PICK S : S = {Value((row + i - 1) * width + column) : i \in 1..l}
    OBVIOUS
  <2>2. cells \in [1..l -> S]
    BY <1>3, <2>1, Zenon
  <2>3. cells \in Seq(S) /\ Len(cells) = l
    BY <1>2, <2>2
  <2> QED
    BY <2>3 DEF IsSequence
<1>6. ChunkTokens = <<head>> \o cells
  BY <1>1, <1>3 DEF ChunkTokens
<1>7. IsSequence(ChunkTokens)
  BY <1>4, <1>5, <1>6, ConcatStaysSequence
<1>8. Len(ChunkTokens) = l + 1 /\ Joined(<<head>>, 1, cells, l, ChunkTokens)
  <2>1. PICK u, t : u = <<head>> /\ t = u \o cells /\ t = ChunkTokens
    BY <1>6
  <2>2. IsSequence(u) /\ Len(u) = 1
    BY <1>4, <2>1
  <2>3. Len(t) = Len(u) + Len(cells) /\ Joined(u, Len(u), cells, Len(cells), t)
    BY <1>5, <2>1, <2>2, AppendJoins
  <2>4. Len(t) = 1 + l /\ Joined(u, 1, cells, l, t)
    BY <1>5, <2>2, <2>3
  <2>5. 1 + l = l + 1
    BY <1>2
  <2>6. Len(ChunkTokens) = l + 1
    BY <2>1, <2>4, <2>5, Zenon
  <2>7. Joined(<<head>>, 1, cells, l, ChunkTokens)
    BY <2>1, <2>4, Zenon
  <2> QED
    BY <2>6, <2>7
<1>9. ChunkTokens[1] = head
  <2>1. 1 \in 1..1
    OBVIOUS
  <2> QED
    BY <1>4, <1>8, <2>1 DEF Joined
<1>10. ASSUME NEW k \in 1..l PROVE ChunkTokens[1 + k] = CellOf(row + k - 1, column)
  <2>1. ChunkTokens[1 + k] = cells[k]
    BY <1>8 DEF Joined
  <2>2. cells[k] = Value((row + k - 1) * width + column)
    BY <1>3
  <2>3. row + k - 1 \in Nat
    BY <1>2
  <2>4. Value((row + k - 1) * width + column) = CellOf(row + k - 1, column)
    BY <1>2, <2>3, ValueFacts
  <2> QED
    BY <2>1, <2>2, <2>4
<1> QED
  BY <1>3, <1>7, <1>8, <1>9, <1>10 DEF ChunkOf

(* A chunk more.                                                           *)
LEMMA ChunkColumnStep ==
  ASSUME Place, IsSequence(emitted), ChunkInv, ParquetColumn
  PROVE  ChunkInv'
<1>0. /\ format = "parquet" /\ stage = "rows" /\ row < rows /\ Emit(ChunkTokens)
      /\ column' = (column + 1) % width /\ stage' = "rows"
      /\ row' = IF column + 1 = width THEN row + GroupSize ELSE row
  BY DEF ParquetColumn, At, ChunkTokens
<1>1. PICK s, t, n, w, R, r, c, b, l :
        /\ s = emitted /\ t = emitted' /\ n = Len(emitted) /\ w = width /\ R = rows
        /\ r = row /\ c = column /\ b = ChunkTokens /\ l = GroupOf(r, R)
  OBVIOUS
<1>2. /\ w \in Nat \ {0} /\ R \in Nat /\ r \in Nat /\ c \in 0..(w - 1) /\ r < R
      /\ r % GroupSize = 0 /\ GroupFacts(s, n, r, c, w, R)
  BY <1>0, <1>1 DEF ChunkInv, Place
<1> w \in Nat \ {0} /\ c \in 0..(w - 1) /\ r \in Nat /\ R \in Nat
  BY <1>2
<1>3. IsSequence(b) /\ Len(b) = l + 1 /\ ChunkOf(b, r, c, l)
  BY <1>1, <1>2, TokensAreChunk
<1>4. UNCHANGED recording
  BY <1>0, CallResults
<1>5. n \in Nat /\ l + 1 \in Nat /\ Len(t) = n + (l + 1) /\ Joined(s, n, b, l + 1, t)
  BY <1>0, <1>1, <1>3, EmitFacts
<1>6. PICK r2, c2 : r2 = row' /\ c2 = column'
  OBVIOUS
<1>7. r2 = (IF c + 1 = w THEN r + GroupSize ELSE r) /\ c2 = (c + 1) % w
  BY <1>0, <1>1, <1>6
<1>8. c2 = IF c + 1 = w THEN 0 ELSE c + 1
  BY <1>7
<1>9. NextChunk(r, c, w, r2, c2)
  BY <1>7, <1>8 DEF NextChunk
<1>10. GroupFacts(t, n + (l + 1), r2, c2, w, R)
  BY <1>1, <1>2, <1>3, <1>5, <1>9, ChunkJoins
<1>11. GroupFacts(emitted', Len(emitted'), row', column', width, rows)
  BY <1>1, <1>5, <1>6, <1>10
<1>12. c2 \in 0..(w - 1) /\ r2 <= R + GroupSize - 1 /\ r2 % GroupSize = 0
  <2>1. GroupSize \in Nat \ {0} /\ (r + GroupSize) % GroupSize = 0
    BY <1>2, NextGroup, ExportAssumption
  <2>2. c2 \in 0..(w - 1) /\ r2 <= R + GroupSize - 1
    BY <1>2, <1>7, <1>8, <2>1
  <2>3. r2 % GroupSize = 0
    BY <1>2, <1>7, <2>1
  <2> QED
    BY <2>2, <2>3
<1>13. /\ row' <= rows + GroupSize - 1 /\ width > 0 /\ column' \in 0..(width - 1)
       /\ row' % GroupSize = 0
  BY <1>1, <1>2, <1>6, <1>12
<1> QED
  BY <1>4, <1>11, <1>13 DEF ChunkInv, recording

(* Every step keeps the chunks.                                            *)
LEMMA ChunkStep ==
  ASSUME Place, Stages, IsSequence(emitted), ChunkInv, [Next]_vars
  PROVE  ChunkInv'
<1>1. UNCHANGED recording
  BY StagesStep
<1>2. CASE format # "parquet"
  BY <1>1, <1>2 DEF ChunkInv, recording
<1> SUFFICES ASSUME format = "parquet" PROVE ChunkInv'
  BY <1>2
<1>3. CASE NoChannels \/ NoTrackPoints \/ UNCHANGED vars
  <2>1. UNCHANGED <<recording, stage, row, column, emitted>>
    BY <1>3 DEF NoChannels, NoTrackPoints, Refuse, vars
  <2> QED
    BY <2>1 DEF ChunkInv, recording
<1>4. CASE ParquetOpen
  <2>1. /\ stage = "opening" /\ width > 0 /\ Emit(Fixed("magic")) /\ stage' = "rows"
        /\ UNCHANGED <<row, column>>
    BY <1>4 DEF ParquetOpen, At
  <2>2. emitted = <<>> /\ row = 0 /\ column = 0 /\ width \in Nat /\ rows \in Nat
    BY <2>1 DEF Stages, Place
  <2>3. PICK b : b = Fixed("magic") /\ IsSequence(b) /\ Len(b) = 1
                 /\ Free(b, 1, "cell") /\ Free(b, 1, "chunk")
    BY FixedFacts
  <2>4. emitted' = b
    <3>1. emitted' = <<>> \o b
      BY <2>1, <2>2, <2>3 DEF Emit
    <3> QED
      BY <2>3, <3>1 DEF IsSequence
  <2>5. GroupFacts(b, 1, 0, 0, width, rows)
    BY <2>2, <2>3, GroupStarts
  <2>6. GroupFacts(emitted', Len(emitted'), row, column, width, rows)
    BY <2>2, <2>3, <2>4, <2>5
  <2>7. 0 % GroupSize = 0
    BY ExportAssumption
  <2>8. column \in 0..(width - 1) /\ row <= rows + GroupSize - 1
    BY <2>1, <2>2, ExportAssumption
  <2> QED
    BY <1>1, <2>1, <2>2, <2>6, <2>7, <2>8 DEF ChunkInv, recording
<1>5. CASE ParquetColumn
  BY <1>5, ChunkColumnStep
<1>6. CASE ParquetClose
  <2>1. stage = "rows" /\ Close(Fixed("footer")) /\ UNCHANGED <<stage, row, column>>
    BY <1>6 DEF ParquetClose, At
  <2>2. PICK b : b = Fixed("footer") /\ IsSequence(b) /\ Len(b) = 1
                 /\ Free(b, 1, "cell") /\ Free(b, 1, "chunk")
    BY FixedFacts
  <2>3. PICK s, t, n : s = emitted /\ t = emitted' /\ n = Len(emitted)
    OBVIOUS
  <2>4. n \in Nat /\ 1 \in Nat /\ Len(t) = n + 1 /\ Joined(s, n, b, 1, t)
    BY <2>1, <2>2, <2>3, EmitFacts
  <2>5. GroupFacts(s, n, row, column, width, rows)
    BY <2>1, <2>3 DEF ChunkInv
  <2>6. GroupFacts(t, n + 1, row, column, width, rows)
    BY <2>2, <2>4, <2>5, GroupStays
  <2>7. GroupFacts(emitted', Len(emitted'), row, column, width, rows)
    BY <2>3, <2>4, <2>6
  <2> QED
    BY <1>1, <2>1, <2>7 DEF ChunkInv, recording
<1>7. ~(CsvHeader \/ CsvRecord \/ CsvFlush \/ GpxPreamble \/ GpxSegment \/ GpxPoint \/ GpxFooter
        \/ SerdeFields \/ SerdeElement \/ SerdeEnd)
  BY DEF CsvHeader, CsvRecord, CsvFlush, GpxPreamble, GpxSegment, GpxPoint, GpxFooter, SerdeFields,
     SerdeElement, SerdeEnd, At
<1> QED
  BY <1>3, <1>4, <1>5, <1>6, <1>7 DEF Next

-----------------------------------------------------------------------------
(* The keys of the cells, read back.                                       *)
LEMMA CellKeys ==
  ASSUME NEW n \in Nat, NEW s, NEW D, NEW I, I = {i \in 1..n : s[i].tag = "cell"},
         NEW F, F = {<<s[i].row, s[i].column>> : i \in I},
         Keyed(s, n, "cell", D)
  PROVE  F = D
<1>1. \A i \in I : Key(s[i]) = <<s[i].row, s[i].column>>
  BY DEF Key
<1>2. \A i \in I : Key(s[i]) \in D
  BY DEF Keyed
<1>3. \A d \in D : \E i \in I : Key(s[i]) = d
  BY DEF Keyed
<1>4. {<<s[i].row, s[i].column>> : i \in I} = D
  <2>1. ASSUME NEW i \in I PROVE <<s[i].row, s[i].column>> \in D
    <3>1. Key(s[i]) = <<s[i].row, s[i].column>> /\ Key(s[i]) \in D
      BY <1>1, <1>2
    <3> QED
      BY <3>1
  <2>2. ASSUME NEW d \in D PROVE \E i \in I : d = <<s[i].row, s[i].column>>
    <3>1. PICK i \in I : Key(s[i]) = d
      BY <1>3
    <3>2. d = <<s[i].row, s[i].column>>
      BY <1>1, <3>1
    <3> QED
      BY <3>2
  <2> QED
    BY <2>1, <2>2, Zenon
<1> QED
  BY <1>4

(* Cells of different rows or columns precede one another one way.         *)
LEMMA PairOrder ==
  ASSUME NEW a, NEW b, NEW c, NEW d
  PROVE  /\ <<<<a, b>>, <<c, d>>>> \in Lexical => a < c \/ (a = c /\ b < d)
         /\ <<<<a, b>>, <<c, d>>>> \in Different =>
              a < c \/ (a = c /\ b < d) \/ c < a \/ (c = a /\ d < b)
         /\ <<a, b>> \in Less => a < b
<1>1. ASSUME <<<<a, b>>, <<c, d>>>> \in Lexical \cup Different
      PROVE  a \in Nat /\ b \in Nat /\ c \in Nat /\ d \in Nat
  <2>1. <<<<a, b>>, <<c, d>>>> \in (Nat \X Nat) \X (Nat \X Nat)
    BY <1>1 DEF Lexical, Different
  <2> QED
    BY <2>1
<1>2. <<a, b>> \in Less => a < b
  BY DEF Less
<1>3. <<<<a, b>>, <<c, d>>>> \in Lexical => a < c \/ (a = c /\ b < d)
  BY <1>1, OrderFacts
<1>4. <<<<a, b>>, <<c, d>>>> \in Different => a # c \/ b # d
  BY <1>1, OrderFacts
<1>5. ASSUME <<<<a, b>>, <<c, d>>>> \in Different
      PROVE  a < c \/ (a = c /\ b < d) \/ c < a \/ (c = a /\ d < b)
  BY <1>1, <1>4, <1>5
<1> QED
  BY <1>2, <1>3, <1>5

\* All that is known of an export.
ExportInv == Place /\ OutInv /\ Stages /\ RowsInv /\ ChunkInv /\ TrackInv

(* It holds at the start.                                                  *)
LEMMA ExportInvInit == Init => ExportInv
<1> SUFFICES ASSUME Init PROVE ExportInv
  OBVIOUS
<1>1. width \in Nat /\ rows \in Nat /\ row = 0 /\ column = 0 /\ stage = "opening" /\ result = None
      /\ buffer = <<>> /\ written = <<>> /\ emitted = <<>> /\ format \in Format
      /\ created \in Creations \cup {None} /\ located \subseteq 0..(rows - 1)
  BY ExportAssumption DEF Init, Rows
<1>2. Place
  BY <1>1 DEF Place
<1>3. OutInv
  <2>1. IsSequence(buffer) /\ IsSequence(written) /\ IsSequence(emitted)
    BY <1>1, FixedIsSequence
  <2>2. IsPrefix(written, emitted) /\ written \o buffer = emitted
    BY <1>1 DEF IsPrefix
  <2> QED
    BY <1>1, <2>1, <2>2, ExportAssumption DEF OutInv, OutputIsWholeOrFails
<1>4. Stages
  BY <1>1, ExportAssumption DEF Stages, Outcome
<1>5. RowsInv
  BY <1>1 DEF RowsInv
<1>6. ChunkInv
  <2>1. 0 <= rows + GroupSize - 1
    BY <1>1, ExportAssumption
  <2> QED
    BY <1>1, <2>1 DEF ChunkInv
<1>7. TrackInv
  <2>1. \A x \in located : x \in Nat /\ x < rows
    BY <1>1
  <2> QED
    BY <1>1, <2>1 DEF TrackInv
<1> QED
  BY <1>2, <1>3, <1>4, <1>5, <1>6, <1>7 DEF ExportInv

(* And every step keeps it.                                                *)
LEMMA ExportInvStep == ExportInv /\ [Next]_vars => ExportInv'
<1> SUFFICES ASSUME ExportInv, [Next]_vars PROVE ExportInv'
  OBVIOUS
<1>1. IsSequence(emitted)
  BY DEF ExportInv, OutInv
<1>2. Place' /\ OutInv'
  BY PlaceStep, OutStep DEF ExportInv
<1>3. Stages'
  BY StagesStep DEF ExportInv
<1>4. RowsInv'
  BY <1>1, RowsStep DEF ExportInv
<1>5. ChunkInv'
  BY <1>1, ChunkStep DEF ExportInv
<1>6. TrackInv'
  BY <1>1, TrackStep DEF ExportInv
<1> QED
  BY <1>2, <1>3, <1>4, <1>5, <1>6 DEF ExportInv

(* The export stays inside its table.                                      *)
LEMMA ExportInvType ==
  ASSUME ExportInv
  PROVE  TypeOK
<1>1. PICK n \in Nat : n = Len(emitted) /\ DOMAIN emitted = 1..n
  BY DEF ExportInv, OutInv, IsSequence
<1>2. width \in Nat /\ rows \in Nat /\ row \in Nat /\ GroupSize \in Nat \ {0}
      /\ format \in Format /\ stage \in {"opening", "name", "rows"} /\ result \in Outcome
  BY ExportAssumption DEF ExportInv, Place, Stages
<1>3. row <= rows + GroupSize - 1 /\ column \in 0..width
  <2>1. CASE format \in {"csv", "serde"}
    BY <1>2, <2>1 DEF ExportInv, RowsInv
  <2>2. CASE format = "gpx"
    BY <1>2, <2>2 DEF ExportInv, TrackInv
  <2>3. CASE format = "parquet" /\ stage = "opening"
    BY <1>2, <2>3 DEF ExportInv, ChunkInv, Stages
  <2>4. CASE format = "parquet" /\ stage = "rows"
    BY <1>2, <2>4 DEF ExportInv, ChunkInv
  <2> QED
    BY <1>2, <2>1, <2>2, <2>3, <2>4 DEF ExportInv, Stages, Format
<1>4. ASSUME NEW i \in 1..n, emitted[i].tag = "cell"
      PROVE  emitted[i].row \in Rows /\ emitted[i].column \in Columns
  <2>1. Key(emitted[i]) = <<emitted[i].row, emitted[i].column>>
    BY <1>4 DEF Key
  <2>2. stage # "opening"
    <3> SUFFICES ASSUME stage = "opening" PROVE FALSE
      OBVIOUS
    <3>1. emitted = <<>>
      BY DEF ExportInv, Stages
    <3>2. n = 0
      BY <1>1, <3>1
    <3> QED
      BY <3>2
  <2>3. CASE format \in {"csv", "serde"}
    <3>1. stage = "rows"
      BY <2>2, <2>3 DEF ExportInv, Stages
    <3>2. Key(emitted[i]) \in Block(0, row, 0, width) /\ row <= rows
      BY <1>1, <1>4, <2>3, <3>1 DEF ExportInv, RowsInv, TableFacts, Keyed
    <3>3. emitted[i].row \in 0..(row - 1) /\ emitted[i].column \in 0..(width - 1)
      BY <2>1, <3>2 DEF Block
    <3> QED
      BY <1>2, <3>2, <3>3 DEF Rows, Columns
  <2>4. CASE format = "gpx"
    BY <1>1, <1>4, <2>2, <2>4 DEF ExportInv, TrackInv, TrackFacts, Free
  <2>5. CASE format = "parquet"
    <3>1. stage = "rows"
      BY <2>2, <2>5 DEF ExportInv, Stages
    <3>2. Key(emitted[i]) \in Done(row, column, width, rows)
      BY <1>1, <1>4, <2>5, <3>1 DEF ExportInv, ChunkInv, GroupFacts, Keyed
    <3>3. <<emitted[i].row, emitted[i].column>> \in (0..(rows - 1)) \X (0..(width - 1))
      BY <2>1, <3>2 DEF Done
    <3> QED
      BY <3>3 DEF Rows, Columns
  <2> QED
    BY <1>2, <2>3, <2>4, <2>5 DEF Format
<1>5. row \in 0..(rows + GroupSize - 1)
  BY <1>2, <1>3
<1> QED
  BY <1>1, <1>2, <1>3, <1>4, <1>5 DEF TypeOK

(* A finished track is whole and in order.                                 *)
LEMMA ExportInvTrack ==
  ASSUME ExportInv, result = "Ok", format = "gpx"
  PROVE  TrackIsExported
<1>1. PICK s, n : n \in Nat /\ s = written /\ DOMAIN written = 1..n /\ written = emitted /\ n = Len(emitted)
  BY DEF ExportInv, OutInv, OutputIsWholeOrFails, IsSequence
<1> n \in Nat
  BY <1>1
<1>2. TrackFacts(s, n, {x \in located : x < row}, timed) /\ row >= rows
  BY <1>1 DEF ExportInv, Stages, TrackInv
<1>3. {x \in located : x < row} = located
  <2>1. \A x \in located : x < row
    BY <1>1, <1>2 DEF ExportInv, Place, TrackInv
  <2> QED
    BY <2>1
<1>4. PICK P, Q : /\ P = {i \in 1..n : s[i].tag = "trkpt"} /\ Q = {i \in 1..n : s[i].tag = "time"}
                  /\ P = Tokens("trkpt") /\ Q = Tokens("time")
  BY <1>1 DEF Tokens
<1>5. \A i \in P : Key(s[i]) = s[i].row
  BY <1>4 DEF Key
<1>6. {s[i].row : i \in P} = located
  <2>1. \A i \in P : s[i].row \in located
    BY <1>2, <1>3, <1>4, <1>5 DEF TrackFacts, Keyed
  <2>2. \A d \in located : \E i \in P : s[i].row = d
    BY <1>2, <1>3, <1>4, <1>5 DEF TrackFacts, Keyed
  <2> QED
    BY <2>1, <2>2, Zenon
<1>7. \A i, j \in P : i < j => s[i].row < s[j].row
  <2> SUFFICES ASSUME NEW i \in P, NEW j \in P, i < j PROVE s[i].row < s[j].row
    OBVIOUS
  <2>1. <<s[i].row, s[j].row>> \in Less
    BY <1>2, <1>4, <1>5 DEF TrackFacts, Ordered
  <2> QED
    BY <2>1, PairOrder
<1>8. \A i \in P : s[i].row \in timed => i + 1 \in Q
  BY <1>2, <1>4 DEF TrackFacts, Follows
<1>9. \A i \in Q : i - 1 \in P /\ s[i].row = s[i - 1].row /\ s[i].row \in timed
  BY <1>2, <1>4 DEF TrackFacts, Follows
<1>10. \A i \in Tokens("text") : s[i].char \in Plain
  BY <1>1, <1>2 DEF Tokens, TrackFacts, TextPlain
<1> QED
  BY <1>1, <1>4, <1>6, <1>7, <1>8, <1>9, <1>10 DEF TrackIsExported

(* A finished table of CSV or serde is whole and in order.                 *)
LEMMA ExportInvRows ==
  ASSUME ExportInv, result = "Ok", format \in {"csv", "serde"}
  PROVE  TableIsExported
<1>1. PICK s, n : n \in Nat /\ s = written /\ DOMAIN written = 1..n /\ written = emitted /\ n = Len(emitted)
  BY DEF ExportInv, OutInv, OutputIsWholeOrFails, IsSequence
<1> n \in Nat
  BY <1>1
<1>2. /\ HeadFacts(s, n, width) /\ TableFacts(s, n, row, width)
      /\ format = "serde" => CountFacts(s, n, rows)
      /\ row = rows
  BY <1>1 DEF ExportInv, Stages, RowsInv, Place
<1>3. PICK C, N : /\ C = {i \in 1..n : s[i].tag = "cell"} /\ N = {i \in 1..n : s[i].tag = "channel"}
                  /\ C = Tokens("cell") /\ N = Tokens("channel")
  BY <1>1 DEF Tokens
<1>4. /\ {<<s[i].row, s[i].column>> : i \in C} = Block(0, row, 0, width)
      /\ \A i \in C : Key(s[i]) = <<s[i].row, s[i].column>>
  <2>1. PICK D : D = Block(0, row, 0, width) /\ Keyed(s, n, "cell", D) /\ n \in Nat
                 /\ C = {i \in 1..n : s[i].tag = "cell"}
    BY <1>2, <1>3 DEF TableFacts
  <2>2. {<<s[i].row, s[i].column>> : i \in C} = D
    <3>1. PICK F : F = {<<s[i].row, s[i].column>> : i \in C}
      OBVIOUS
    <3>2. F = D
      BY <2>1, <3>1, CellKeys
    <3> QED
      BY <3>1, <3>2
  <2>3. \A i \in C : Key(s[i]) = <<s[i].row, s[i].column>>
    BY <2>1 DEF Key
  <2> QED
    BY <2>1, <2>2, <2>3, Zenon
<1>5. Block(0, row, 0, width) = Rows \X Columns
  BY <1>2 DEF Block, Rows, Columns
<1>6. ASSUME NEW i \in C, NEW j \in C, i < j
      PROVE  s[i].row < s[j].row \/ (s[i].row = s[j].row /\ s[i].column < s[j].column)
  <2>1. <<Key(s[i]), Key(s[j])>> \in Lexical
    BY <1>2, <1>3, <1>6 DEF TableFacts, Ordered
  <2>2. <<<<s[i].row, s[i].column>>, <<s[j].row, s[j].column>>>> \in Lexical
    BY <1>4, <2>1
  <2> QED
    BY <2>2, PairOrder
<1>7. \A i, j \in C : i < j => Precedes(i, j)
  BY <1>1, <1>6 DEF Precedes
<1>8. \A i \in N : Key(s[i]) = s[i].column
  BY <1>3 DEF Key
<1>9. {s[i].column : i \in N} = Columns
  <2>1. \A i \in N : s[i].column \in Columns
    BY <1>2, <1>3, <1>8 DEF HeadFacts, Keyed, Columns
  <2>2. \A d \in Columns : \E i \in N : s[i].column = d
    BY <1>2, <1>3, <1>8 DEF HeadFacts, Keyed, Columns
  <2> QED
    BY <2>1, <2>2, Zenon
<1>10. \A i, j \in N : i < j => s[i].column < s[j].column
  <2> SUFFICES ASSUME NEW i \in N, NEW j \in N, i < j PROVE s[i].column < s[j].column
    OBVIOUS
  <2>1. <<s[i].column, s[j].column>> \in Less
    BY <1>2, <1>3, <1>8 DEF HeadFacts, Ordered
  <2> QED
    BY <2>1, PairOrder
<1>11. \A i \in N : \A j \in C : i < j
  BY <1>2, <1>3 DEF HeadFacts, Leads
<1>12. ASSUME format = "serde"
       PROVE  \E i \in Tokens("samples") : /\ s[i].length = rows
                                           /\ \A j \in Tokens("samples") : j = i
                                           /\ \A j \in C : i < j
  <2>1. Tokens("samples") = {i \in 1..n : s[i].tag = "samples"}
    BY <1>1 DEF Tokens
  <2>2. PICK i \in 1..n : s[i].tag = "samples" /\ Key(s[i]) = rows
    BY <1>2, <1>12 DEF CountFacts, Keyed
  <2>3. s[i].length = rows
    BY <2>2 DEF Key
  <2>4. \A j \in 1..n : s[j].tag = "samples" => ~(i < j) /\ ~(j < i)
    BY <1>2, <1>12, <2>2 DEF CountFacts, Ordered
  <2>5. \A j \in Tokens("samples") : j = i
    BY <2>1, <2>4
  <2>6. \A j \in C : i < j
    BY <1>2, <1>3, <1>12, <2>2 DEF CountFacts, Leads
  <2> QED
    BY <2>1, <2>2, <2>3, <2>5, <2>6
<1>13. {<<written[i].row, written[i].column>> : i \in Tokens("cell")} = Rows \X Columns
  BY <1>1, <1>3, <1>4, <1>5
<1>14. {written[i].column : i \in Tokens("channel")} = Columns
  BY <1>1, <1>3, <1>9
<1> QED
  BY <1>1, <1>3, <1>7, <1>10, <1>11, <1>12, <1>13, <1>14 DEF TableIsExported

(* A finished Parquet file is whole, in whole chunks.                      *)
LEMMA ExportInvChunks ==
  ASSUME ExportInv, result = "Ok", format = "parquet"
  PROVE  TableIsExported
<1>1. PICK s, n : n \in Nat /\ s = written /\ DOMAIN written = 1..n /\ written = emitted /\ n = Len(emitted)
  BY DEF ExportInv, OutInv, OutputIsWholeOrFails, IsSequence
<1> n \in Nat
  BY <1>1
<1>2. GroupFacts(s, n, row, column, width, rows) /\ row >= rows /\ row \in Nat /\ rows \in Nat
  BY <1>1 DEF ExportInv, Stages, ChunkInv, Place
<1>3. PICK C, K : /\ C = {i \in 1..n : s[i].tag = "cell"} /\ K = {i \in 1..n : s[i].tag = "chunk"}
                  /\ C = Tokens("cell") /\ K = Tokens("chunk")
  BY <1>1 DEF Tokens
<1>4. /\ {<<s[i].row, s[i].column>> : i \in C} = Done(row, column, width, rows)
      /\ \A i \in C : Key(s[i]) = <<s[i].row, s[i].column>>
  <2>1. PICK D : D = Done(row, column, width, rows) /\ Keyed(s, n, "cell", D) /\ n \in Nat
                 /\ C = {i \in 1..n : s[i].tag = "cell"}
    BY <1>2, <1>3 DEF GroupFacts
  <2>2. {<<s[i].row, s[i].column>> : i \in C} = D
    <3>1. PICK F : F = {<<s[i].row, s[i].column>> : i \in C}
      OBVIOUS
    <3>2. F = D
      BY <2>1, <3>1, CellKeys
    <3> QED
      BY <3>1, <3>2
  <2>3. \A i \in C : Key(s[i]) = <<s[i].row, s[i].column>>
    BY <2>1 DEF Key
  <2> QED
    BY <2>1, <2>2, <2>3, Zenon
<1>5. Done(row, column, width, rows) = Rows \X Columns
  <2>1. \A p \in (0..(rows - 1)) \X (0..(width - 1)) : p[1] < row
    <3>1. \A i \in 0..(rows - 1) : i < row
      BY <1>2
    <3>2. \A p \in (0..(rows - 1)) \X (0..(width - 1)) : p[1] \in 0..(rows - 1)
      OBVIOUS
    <3> QED
      BY <3>1, <3>2
  <2> QED
    BY <2>1 DEF Done, Rows, Columns
<1>6. ASSUME NEW i \in C, NEW j \in C, i < j
      PROVE  Precedes(i, j) \/ Precedes(j, i)
  <2>1. <<Key(s[i]), Key(s[j])>> \in Different
    BY <1>2, <1>3, <1>6 DEF GroupFacts, Ordered
  <2>2. <<<<s[i].row, s[i].column>>, <<s[j].row, s[j].column>>>> \in Different
    BY <1>4, <2>1
  <2>3. \/ s[i].row < s[j].row \/ (s[i].row = s[j].row /\ s[i].column < s[j].column)
        \/ s[j].row < s[i].row \/ (s[j].row = s[i].row /\ s[j].column < s[i].column)
    BY <2>2, PairOrder
  <2> QED
    BY <1>1, <2>3 DEF Precedes
<1>7. ASSUME NEW i \in K
      PROVE  /\ ChunkIsWhole(i)
             /\ s[i + 1].tag = "cell" /\ s[i + 1].column = s[i].column
  <2>1. i + s[i].length \in 1..n /\ WholeChunk(s, i, rows)
    BY <1>2, <1>3 DEF GroupFacts, ChunksWhole
  <2>2. ChunkIsWhole(i)
    BY <1>1, <2>1 DEF ChunkIsWhole, WholeChunk, CellOf
  <2>3. 1 \in 1..s[i].length
    BY <2>1, ExportAssumption DEF WholeChunk
  <2>4. s[i + 1] = CellOf(s[i + 1].row + 1 - 1, s[i].column)
    BY <2>1, <2>3 DEF WholeChunk
  <2>5. s[i + 1].tag = "cell" /\ s[i + 1].column = s[i].column
    BY <2>4 DEF CellOf
  <2> QED
    BY <2>2, <2>5
<1>8. \A i \in C : \E j \in K : i \in j..(j + s[j].length)
  BY <1>2, <1>3 DEF GroupFacts, Covered
<1>9. ASSUME NEW i \in K, NEW j \in K, i < j
      PROVE  Precedes(i + 1, j + 1)
  <2>1. s[i + 1].row < s[j + 1].row \/ (s[i + 1].row = s[j + 1].row /\ s[i].column < s[j].column)
    BY <1>2, <1>3, <1>9 DEF GroupFacts, ChunkOrder
  <2> QED
    BY <1>1, <1>7, <2>1 DEF Precedes
<1>10. {<<written[i].row, written[i].column>> : i \in Tokens("cell")} = Rows \X Columns
  BY <1>1, <1>3, <1>4, <1>5
<1> QED
  BY <1>1, <1>3, <1>6, <1>7, <1>8, <1>9, <1>10 DEF TableIsExported

(* What the destination accepted is a prefix of what was produced, nothing *)
(* between the two is lost while the call runs, and success means that all *)
(* of it arrived.                                                          *)
THEOREM ExportIsWholeOrFails == Spec => []OutputIsWholeOrFails
<1>1. ExportInv => OutputIsWholeOrFails
  BY DEF ExportInv, OutInv
<1> QED
  BY <1>1, ExportInvInit, ExportInvStep, PTL DEF Spec

(* The export stays inside its table in every reachable state.             *)
THEOREM ExportTypeCorrect == Spec => []TypeOK
<1>1. ExportInv => TypeOK
  BY ExportInvType
<1> QED
  BY <1>1, ExportInvInit, ExportInvStep, PTL DEF Spec

(* A CSV, Parquet or serde export that succeeds holds every cell once, in  *)
(* the order of its format, behind its names, in whole row groups, or      *)
(* behind the number of rows: for every recording and row group size.      *)
THEOREM TablesAreExported == Spec => []TableIsExported
<1>1. ExportInv => TableIsExported
  <2> SUFFICES ASSUME ExportInv, result = "Ok", format # "gpx" PROVE TableIsExported
    BY DEF TableIsExported
  <2>1. format \in {"csv", "serde"} \/ format = "parquet"
    BY DEF ExportInv, Stages, Format
  <2> QED
    BY <2>1, ExportInvRows, ExportInvChunks
<1> QED
  BY <1>1, ExportInvInit, ExportInvStep, PTL DEF Spec

(* A GPX export that succeeds holds each located row once, in order, its   *)
(* time directly behind its point, and no character in need of an escape.  *)
THEOREM TracksAreExported == Spec => []TrackIsExported
<1>1. ExportInv => TrackIsExported
  <2> SUFFICES ASSUME ExportInv, result = "Ok", format = "gpx" PROVE TrackIsExported
    BY DEF TrackIsExported
  <2> QED
    BY ExportInvTrack
<1> QED
  BY <1>1, ExportInvInit, ExportInvStep, PTL DEF Spec
=============================================================================
