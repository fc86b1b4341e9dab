---------------------------- MODULE ChannelSummary ----------------------------
(***************************************************************************)
(* The summary of one column (src/telemetry.rs): the pass that             *)
(* `numeric_channel_summaries` makes over every column in its own unit and *)
(* `converted_channel_with_filter` over a column with a known unit.        *)
(*                                                                         *)
(* Finite numbers are the integers from -Big to Big.  A product or a sum   *)
(* beyond them is infinite, and an infinite sum stays so: only finite      *)
(* values are added.                                                       *)
(***************************************************************************)
EXTENDS Integers, Sequences, FiniteSets

CONSTANTS
  Missing,       \* a cell that is NaN or infinite
  Infinite,      \* a sum that overflowed
  None,
  Cells,         \* the finite cells
  Factors,       \* the factors of the units known
  Big,
  CountLimit,    \* u32::MAX
  MaxRows        \* bound: the number of rows

ASSUME SummaryAssumption ==
  /\ Missing \notin Int /\ Infinite \notin Int /\ None \notin Int
  /\ Big \in Nat /\ Cells \subseteq -Big..Big
  /\ Factors \subseteq Nat \ {0} /\ 1 \in Factors
  /\ CountLimit \in Nat \ {0} /\ MaxRows \in Nat

Finite == -Big..Big

VARIABLES
  factor,        \* None: no such column, no unit, or one that is not known
  physical,      \* negative values are ignored, as for the radius of turn
  samples, minimum, maximum, sum,
  returned,
  report,        \* what the call returned
  cells          \* history: the column so far

vars == <<factor, physical, samples, minimum, maximum, sum, returned, report, cells>>

Init ==
  /\ factor \in Factors \cup {None}
  /\ physical \in BOOLEAN
  /\ samples = 0 /\ minimum = 0 /\ maximum = 0 /\ sum = 0
  /\ returned = FALSE
  /\ report = None
  /\ cells = <<>>

Accepts(cell) ==
  /\ cell # Missing
  /\ cell * factor \in Finite
  /\ physical => cell * factor >= 0

Plus(total, value) ==
  IF total = Infinite THEN Infinite
  ELSE IF total + value \in Finite THEN total + value ELSE Infinite

\* Mutant: the extremes start at zero.
PushOntoZero(value) ==
  /\ minimum' = IF value < minimum THEN value ELSE minimum
  /\ maximum' = IF value > maximum THEN value ELSE maximum
  /\ samples' = samples + 1
  /\ sum' = Plus(sum, value)

Push(value) ==
  /\ minimum' = IF samples = 0 \/ value < minimum THEN value ELSE minimum
  /\ maximum' = IF samples = 0 \/ value > maximum THEN value ELSE maximum
  /\ samples' = samples + 1
  /\ sum' = Plus(sum, value)

ReadCell(cell) ==
  /\ ~returned /\ factor # None
  /\ Len(cells) < MaxRows
  /\ cells' = Append(cells, cell)
  /\ IF Accepts(cell) THEN Push(cell * factor)
     ELSE UNCHANGED <<samples, minimum, maximum, sum>>
  /\ UNCHANGED <<factor, physical, returned, report>>

\* Without a unit the rows are not read.
UnknownUnit ==
  /\ ~returned /\ factor = None
  /\ returned' = TRUE
  /\ UNCHANGED <<factor, physical, report, samples, minimum, maximum, sum, cells>>

\* Mutant: the mean is taken over the rows.
RowsRead == Len(cells)

\* `u32::try_from(..).unwrap_or(u32::MAX)`
MeanCount == IF samples > CountLimit THEN CountLimit ELSE samples

Finish ==
  /\ ~returned /\ factor # None
  /\ returned' = TRUE
  /\ report' = IF samples = 0 THEN None
               ELSE [samples |-> samples, minimum |-> minimum, maximum |-> maximum,
                     mean |-> [sum |-> sum, count |-> MeanCount]]
  /\ UNCHANGED <<factor, physical, samples, minimum, maximum, sum, cells>>

Next ==
  \/ \E cell \in Cells \cup {Missing} : ReadCell(cell)
  \/ UnknownUnit
  \/ Finish

Spec == Init /\ [][Next]_vars

-----------------------------------------------------------------------------
(* The accumulator holds finite values, except for a sum that overflowed.  *)
TypeOK ==
  /\ factor \in Factors \cup {None} /\ physical \in BOOLEAN /\ returned \in BOOLEAN
  /\ samples \in Nat /\ samples <= Len(cells)
  /\ minimum \in Finite /\ maximum \in Finite
  /\ sum \in Finite \cup {Infinite}
  /\ cells \in Seq(Cells \cup {Missing})

\* The values of the channel in its canonical unit: finite, and not negative
\* where negative ones are not physical.
ChannelValues ==
  {cells[i] * factor : i \in {k \in DOMAIN cells :
     /\ cells[k] # Missing
     /\ cells[k] * factor \in IF physical THEN 0..Big ELSE Finite}}

(* The extremes are values of the channel and bound all of them, in the    *)
(* converted unit, also when the first or every value is far from zero.    *)
ExtremesAreAttained ==
  /\ samples = 0 <=> ChannelValues = {}
  /\ samples > 0 =>
       /\ minimum \in ChannelValues /\ maximum \in ChannelValues
       /\ \A v \in ChannelValues : minimum <= v /\ v <= maximum

(* The mean lies between the extremes, unless the sum overflowed or there  *)
(* are more samples than a u32 counts.                                     *)
MeanIsBetweenExtremes ==
  report # None /\ report.mean.sum # Infinite /\ report.samples <= CountLimit =>
    /\ report.minimum * report.mean.count <= report.mean.sum
    /\ report.mean.sum <= report.maximum * report.mean.count
=============================================================================
