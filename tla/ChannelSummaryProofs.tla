------------------------- MODULE ChannelSummaryProofs -------------------------
(***************************************************************************)
(* A summary is right for columns of any length, any cells and any unit.   *)
(***************************************************************************)
EXTENDS ChannelSummary, BasicLemmas, TLAPS

-----------------------------------------------------------------------------
(* Zero is finite, and finite values are integers.                         *)
LEMMA FiniteFacts ==
  0 \in Finite /\ (\A v \in Finite : v \in Int) /\ Infinite \notin Finite
BY SummaryAssumption DEF Finite

(* A row's cell adds its value to the channel, if it is accepted.          *)
LEMMA ReadParts ==
  ASSUME TypeOK, NEW cell \in Cells \cup {Missing}, ReadCell(cell)
  PROVE  \/ /\ UNCHANGED <<samples, minimum, maximum, sum, ChannelValues>>
         \/ \E value \in Finite : Push(value) /\ ChannelValues' = ChannelValues \cup {value}
<1>1. PICK n \in Nat : n = Len(cells)
  BY DEF TypeOK
<1>2. PICK longer : longer = Append(cells, cell)
  OBVIOUS
<1>3. /\ DOMAIN longer = 1..(n + 1) /\ longer[n + 1] = cell
      /\ DOMAIN cells = 1..n /\ \A i \in 1..n : longer[i] = cells[i]
  BY <1>1, <1>2 DEF TypeOK
<1>4. cells' = longer /\ factor' = factor /\ physical' = physical /\ factor # None
  BY <1>2 DEF ReadCell
<1> DEFINE Values == IF physical THEN 0..Big ELSE Finite
           Counted(c) == c # Missing /\ c * factor \in Values
<1>5. factor \in Nat
  BY <1>4, SummaryAssumption DEF TypeOK
<1>6. Accepts(cell) <=> Counted(cell)
  <2>1. CASE cell = Missing
    BY <2>1 DEF Accepts
  <2>2. CASE cell # Missing
    <3>1. cell * factor \in Int
      BY <1>5, <2>2, SummaryAssumption
    <3>2. PICK v \in Int : v = cell * factor
      BY <3>1
    <3>3. v \in 0..Big <=> v \in Finite /\ v >= 0
      BY SummaryAssumption DEF Finite
    <3> QED
      BY <2>2, <3>2, <3>3 DEF Accepts
  <2> QED
    BY <2>1, <2>2
<1>7. ChannelValues = {cells[i] * factor : i \in {k \in 1..n : Counted(cells[k])}}
  BY <1>3 DEF ChannelValues
<1>8. ChannelValues' = {longer[i] * factor : i \in {k \in 1..(n + 1) : Counted(longer[k])}}
  BY <1>3, <1>4 DEF ChannelValues
<1> HIDE DEF Counted
<1>9. n + 1 \in 1..(n + 1) /\ \A i \in 1..n : i \in 1..(n + 1)
  OBVIOUS
<1>10. \A i \in 1..(n + 1) : i \in 1..n \/ i = n + 1
  OBVIOUS
<1>11. CASE Accepts(cell)
  <2>1. ChannelValues' = ChannelValues \cup {cell * factor}
    BY <1>3, <1>6, <1>7, <1>8, <1>9, <1>10, <1>11
  <2>2. cell * factor \in Finite /\ Push(cell * factor)
    BY <1>11 DEF ReadCell, Accepts
  <2> QED
    BY <2>1, <2>2
<1>12. CASE ~Accepts(cell)
  <2>1. ChannelValues' = ChannelValues
    BY <1>3, <1>6, <1>7, <1>8, <1>9, <1>10, <1>12
  <2> QED
    BY <1>12, <2>1 DEF ReadCell
<1> QED
  BY <1>11, <1>12

(* Every step keeps the types.                                             *)
LEMMA TypeStep ==
  ASSUME TypeOK, [Next]_vars
  PROVE  TypeOK'
<1>1. ASSUME NEW cell \in Cells \cup {Missing}, ReadCell(cell)
      PROVE  TypeOK'
  <2>1. /\ cells' \in Seq(Cells \cup {Missing}) /\ Len(cells') = Len(cells) + 1
        /\ UNCHANGED <<factor, physical, returned>> /\ Len(cells) \in Nat
    BY <1>1 DEF ReadCell, TypeOK
  <2>2. CASE UNCHANGED <<samples, minimum, maximum, sum>>
    BY <2>1, <2>2 DEF TypeOK
  <2>3. ASSUME NEW value \in Finite, Push(value)
        PROVE  TypeOK'
    <3>1. minimum' \in Finite /\ maximum' \in Finite
      BY <2>3 DEF Push, TypeOK
    <3>2. samples' = samples + 1 /\ sum' = Plus(sum, value)
      BY <2>3 DEF Push
    <3>3. Plus(sum, value) \in Finite \cup {Infinite}
      BY DEF Plus
    <3> QED
      BY <2>1, <3>1, <3>2, <3>3 DEF TypeOK
  <2> QED
    BY <1>1, <2>2, <2>3, ReadParts
<1>2. CASE UnknownUnit \/ Finish \/ UNCHANGED vars
  BY <1>2 DEF UnknownUnit, Finish, vars, TypeOK
<1> QED
  BY <1>1, <1>2 DEF Next

(* TypeOK holds of every execution: whatever is read, the extremes are     *)
(* finite and only the sum may overflow.                                   *)
THEOREM SummaryTypeCorrect == Spec => []TypeOK
<1>1. Init => TypeOK
  <2> SUFFICES ASSUME Init PROVE TypeOK
    OBVIOUS
  <2>1. Len(cells) = 0 /\ cells \in Seq(Cells \cup {Missing})
    BY DEF Init
  <2>2. samples \in Nat /\ samples <= Len(cells)
    BY <2>1 DEF Init
  <2>3. factor \in Factors \cup {None} /\ physical \in BOOLEAN /\ returned \in BOOLEAN
    BY Zenon DEF Init
  <2>4. minimum \in Finite /\ maximum \in Finite /\ sum \in Finite \cup {Infinite}
    BY FiniteFacts DEF Init
  <2> QED
    BY <2>1, <2>2, <2>3, <2>4, Zenon DEF TypeOK
<1>2. TypeOK /\ [Next]_vars => TypeOK'
  BY TypeStep
<1> QED
  BY <1>1, <1>2, PTL DEF Spec

-----------------------------------------------------------------------------
(* An accepted value keeps the extremes.                                   *)
LEMMA PushKeepsExtremes ==
  ASSUME TypeOK, ExtremesAreAttained, NEW value \in Finite, Push(value),
         ChannelValues' = ChannelValues \cup {value},
         \A v \in ChannelValues : v \in Int
  PROVE  ExtremesAreAttained'
<1>1. /\ minimum' = IF samples = 0 \/ value < minimum THEN value ELSE minimum
      /\ maximum' = IF samples = 0 \/ value > maximum THEN value ELSE maximum
      /\ samples' = samples + 1 /\ samples \in Nat
  BY DEF Push, TypeOK
<1>2. value \in Int /\ minimum \in Int /\ maximum \in Int
  BY FiniteFacts DEF TypeOK
<1>3. samples' > 0 /\ samples' # 0 /\ ChannelValues' # {}
  BY <1>1
<1>4. minimum' \in ChannelValues' /\ maximum' \in ChannelValues'
  BY <1>1 DEF ExtremesAreAttained
<1>5. ASSUME NEW v \in ChannelValues'
      PROVE  minimum' <= v /\ v <= maximum'
  <2>1. CASE v = value
    BY <1>1, <1>2, <2>1
  <2>2. CASE v # value
    <3>1. v \in ChannelValues /\ v \in Int
      BY <2>2
    <3>2. samples > 0 /\ minimum <= v /\ v <= maximum
      BY <1>1, <3>1 DEF ExtremesAreAttained
    <3> QED
      BY <1>1, <1>2, <3>1, <3>2
  <2> QED
    BY <2>1, <2>2
<1> QED
  BY <1>3, <1>4, <1>5 DEF ExtremesAreAttained

(* The extremes reported are attained and bound every value of the         *)
(* channel, in any unit and at any distance from zero.                     *)
THEOREM ExtremesAreTheChannels == Spec => []ExtremesAreAttained
<1>1. Init => ExtremesAreAttained
  <2> SUFFICES ASSUME Init PROVE ExtremesAreAttained
    OBVIOUS
  <2>1. samples = 0 /\ DOMAIN cells = {}
    BY DEF Init
  <2>2. ChannelValues = {}
    BY <2>1 DEF ChannelValues
  <2> QED
    BY <2>1, <2>2 DEF ExtremesAreAttained
<1>2. TypeOK /\ ExtremesAreAttained /\ [Next]_vars => ExtremesAreAttained'
  <2> SUFFICES ASSUME TypeOK, ExtremesAreAttained, [Next]_vars PROVE ExtremesAreAttained'
    OBVIOUS
  <2>1. ASSUME NEW cell \in Cells \cup {Missing}, ReadCell(cell)
        PROVE  ExtremesAreAttained'
    <3>1. CASE UNCHANGED <<samples, minimum, maximum, sum, ChannelValues>>
      BY <3>1 DEF ExtremesAreAttained
    <3>2. ASSUME NEW value \in Finite, Push(value), ChannelValues' = ChannelValues \cup {value}
          PROVE  ExtremesAreAttained'
      <4>1. \A v \in ChannelValues : v \in Int
        <5>1. factor # None
          BY <2>1 DEF ReadCell
        <5>2. factor \in Nat
          BY <5>1, SummaryAssumption DEF TypeOK
        <5>3. \A i \in DOMAIN cells : cells[i] \in Cells \cup {Missing}
          BY DEF TypeOK
        <5>4. \A c \in Cells : c * factor \in Int
          BY <5>2, SummaryAssumption
        <5> QED
          BY <5>3, <5>4 DEF ChannelValues
      <4> QED
        BY <3>2, <4>1, PushKeepsExtremes
    <3> QED
      BY <2>1, <3>1, <3>2, ReadParts
  <2>2. CASE UnknownUnit \/ Finish \/ UNCHANGED vars
    BY <2>2 DEF UnknownUnit, Finish, vars, ExtremesAreAttained, ChannelValues
  <2> QED
    BY <2>1, <2>2 DEF Next
<1> QED
  BY <1>1, <1>2, SummaryTypeCorrect, PTL DEF Spec

-----------------------------------------------------------------------------
(* As long as it has not overflowed, the sum lies between the sums of as   *)
(* many minima and as many maxima.                                         *)
SumInv ==
  /\ samples = 0 => sum = 0
  /\ samples # 0 /\ sum # Infinite =>
       minimum * samples <= sum /\ sum <= maximum * samples

\* What was returned is what the pass had collected.
ReportInv ==
  report # None =>
    /\ returned /\ report.samples = samples /\ samples # 0
    /\ report.minimum = minimum /\ report.maximum = maximum
    /\ report.mean.sum = sum /\ report.mean.count = MeanCount

(* One more value, which may be the least or the greatest.                 *)
LEMMA SumsStayBetween ==
  ASSUME NEW total \in Int, NEW count \in Nat, NEW value \in Int,
         NEW min \in Int, NEW max \in Int, min * count <= total, total <= max * count,
         NEW min2 \in Int, min2 <= min, min2 <= value,
         NEW max2 \in Int, max <= max2, value <= max2
  PROVE  min2 * (count + 1) <= total + value /\ total + value <= max2 * (count + 1)
<1>1. min2 * count <= min * count /\ max * count <= max2 * count
  BY ScaleKeepsOrder
<1>2. PICK a \in Int, b \in Int, c \in Int, d \in Int :
        a = min2 * count /\ b = min * count /\ c = max * count /\ d = max2 * count
  <2>1. min2 * count \in Int /\ min * count \in Int  OBVIOUS
  <2>2. max * count \in Int /\ max2 * count \in Int  OBVIOUS
  <2> QED  BY <2>1, <2>2
<1>3. a <= total /\ total <= d
  BY <1>1, <1>2
<1>4. a + min2 <= total + value /\ total + value <= d + max2
  BY <1>3
<1>5. min2 * (count + 1) = a + min2
  BY <1>2
<1>6. max2 * (count + 1) = d + max2
  BY <1>2
<1> QED
  BY <1>4, <1>5, <1>6

(* An accepted value keeps the sum between the extremes.                   *)
LEMMA PushKeepsSum ==
  ASSUME TypeOK, SumInv, NEW value \in Finite, Push(value)
  PROVE  SumInv'
<1>1. /\ minimum' = IF samples = 0 \/ value < minimum THEN value ELSE minimum
      /\ maximum' = IF samples = 0 \/ value > maximum THEN value ELSE maximum
      /\ samples' = samples + 1 /\ samples \in Nat
      /\ sum' = Plus(sum, value)
  BY DEF Push, TypeOK
<1>2. value \in Int /\ minimum \in Int /\ maximum \in Int /\ (sum # Infinite => sum \in Int)
  BY FiniteFacts DEF TypeOK
<1>3. SUFFICES ASSUME sum' # Infinite
               PROVE  minimum' * samples' <= sum' /\ sum' <= maximum' * samples'
  BY <1>1 DEF SumInv
<1>4. sum # Infinite /\ sum' = sum + value
  BY <1>1, <1>3 DEF Plus
<1>5. PICK min2 \in Int, max2 \in Int, count \in Nat, total \in Int :
        min2 = minimum' /\ max2 = maximum' /\ count = samples /\ total = sum
  BY <1>1, <1>2, <1>4
<1>6. min2 * (count + 1) <= total + value /\ total + value <= max2 * (count + 1)
  <2>1. CASE samples = 0
    <3>1. count = 0 /\ total = 0 /\ min2 = value /\ max2 = value
      BY <1>1, <1>5, <2>1 DEF SumInv
    <3> QED
      BY <3>1
  <2>2. CASE samples # 0
    <3>1. minimum * count <= total /\ total <= maximum * count
      BY <1>4, <1>5, <2>2 DEF SumInv
    <3>2. min2 <= minimum /\ min2 <= value /\ maximum <= max2 /\ value <= max2
      BY <1>1, <1>2, <1>5, <2>2
    <3> QED
      BY <1>2, <3>1, <3>2, SumsStayBetween
  <2> QED
    BY <2>1, <2>2
<1> QED
  BY <1>1, <1>4, <1>5, <1>6

(* The mean reported lies between the extremes, for any column whose sum   *)
(* does not overflow and whose samples a u32 counts.                       *)
THEOREM MeanLiesBetweenExtremes == Spec => []MeanIsBetweenExtremes
<1>1. Init => SumInv /\ ReportInv
  BY DEF Init, SumInv, ReportInv
<1>2. TypeOK /\ SumInv /\ ReportInv /\ [Next]_vars => SumInv' /\ ReportInv'
  <2> SUFFICES ASSUME TypeOK, SumInv, ReportInv, [Next]_vars PROVE SumInv' /\ ReportInv'
    OBVIOUS
  <2>1. ASSUME NEW cell \in Cells \cup {Missing}, ReadCell(cell)
        PROVE  SumInv' /\ ReportInv'
    <3>1. report' = None
      BY <2>1 DEF ReadCell, ReportInv
    <3>2. SumInv'
      <4>1. CASE UNCHANGED <<samples, minimum, maximum, sum>>
        BY <4>1 DEF SumInv
      <4> QED
        BY <2>1, <4>1, PushKeepsSum, ReadParts
    <3> QED
      BY <3>1, <3>2 DEF ReportInv
  <2>2. CASE Finish
    <3>1. UNCHANGED <<samples, minimum, maximum, sum>> /\ MeanCount' = MeanCount
      BY <2>2 DEF Finish, MeanCount
    <3>2. returned' /\ report' = IF samples = 0 THEN None
               ELSE [samples |-> samples, minimum |-> minimum, maximum |-> maximum,
                     mean |-> [sum |-> sum, count |-> MeanCount]]
      BY <2>2 DEF Finish
    <3>3. SumInv'
      BY <3>1 DEF SumInv
    <3>4. CASE samples = 0
      BY <3>2, <3>3, <3>4 DEF ReportInv
    <3>5. CASE samples # 0
      BY <3>1, <3>2, <3>3, <3>5 DEF ReportInv
    <3> QED
      BY <3>4, <3>5
  <2>3. CASE UnknownUnit
    BY <2>3 DEF UnknownUnit, SumInv, ReportInv, MeanCount
  <2>4. CASE UNCHANGED vars
    BY <2>4 DEF vars, SumInv, ReportInv, MeanCount
  <2> QED
    BY <2>1, <2>2, <2>3, <2>4 DEF Next
<1>3. TypeOK /\ SumInv /\ ReportInv => MeanIsBetweenExtremes
  <2> SUFFICES ASSUME TypeOK, SumInv, ReportInv, report # None,
                      report.mean.sum # Infinite, report.samples <= CountLimit
               PROVE  /\ report.minimum * report.mean.count <= report.mean.sum
                      /\ report.mean.sum <= report.maximum * report.mean.count
    BY DEF MeanIsBetweenExtremes
  <2>1. /\ report.samples = samples /\ samples # 0
        /\ report.minimum = minimum /\ report.maximum = maximum
        /\ report.mean.sum = sum /\ report.mean.count = MeanCount
    BY DEF ReportInv
  <2>2. MeanCount = samples
    BY <2>1, SummaryAssumption DEF MeanCount, TypeOK
  <2> QED
    BY <2>1, <2>2 DEF SumInv
<1> QED
  BY <1>1, <1>2, <1>3, SummaryTypeCorrect, PTL DEF Spec
=============================================================================
