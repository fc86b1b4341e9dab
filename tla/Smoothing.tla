------------------------------ MODULE Smoothing ------------------------------
(***************************************************************************)
(* `TimeSeries::smooth_moving_mean` (src/analysis.rs): a trailing mean of  *)
(* `window` samples, kept as a running sum that takes in a sample and then *)
(* gives out the one that left the window.                                 *)
(*                                                                         *)
(* Finite numbers are the integers from -Big to Big.  A sum beyond them is *)
(* infinite and stays so: only finite values are added and subtracted.     *)
(* A mean is its sum and its count.                                        *)
(***************************************************************************)
EXTENDS Integers, Sequences

CONSTANTS
  NaN,           \* a value that is not finite, and the mean of nothing
  Infinite,      \* a sum that overflowed
  Values,        \* the finite values of the series
  Big,
  Windows,       \* the windows asked for
  MaxLength      \* bound: the length of the series

ASSUME SmoothingAssumption ==
  /\ NaN \notin Int /\ Infinite \notin Int
  /\ Big \in Nat /\ Values \subseteq -Big..Big
  /\ Windows \subseteq Nat
  /\ MaxLength \in Nat

Finite == -Big..Big

VARIABLES
  window,
  status,          \* "running", "InvalidSmoothingWindow" or "Ok"
  sum, finite_count,
  source,          \* the series as far as it was read
  means,
  totals, counts   \* history: the exact sum and number of finite values so far

smoothing == <<window, status, sum, finite_count, source, means, totals, counts>>

SmoothingInit ==
  /\ window \in Windows
  /\ status = IF window = 0 THEN "InvalidSmoothingWindow" ELSE "running"
  /\ sum = 0 /\ finite_count = 0
  /\ source = <<>> /\ means = <<>>
  /\ totals = <<>> /\ counts = <<>>

At(prefix, i) == IF i <= 0 THEN 0 ELSE prefix[i]
Term(v) == IF v = NaN THEN 0 ELSE v
CountedIn(v) == IF v = NaN THEN 0 ELSE 1

Plus(total, v) ==
  IF total = Infinite THEN Infinite
  ELSE IF total + v \in Finite THEN total + v ELSE Infinite

\* Mutant: the window is one sample too long.
LateOutgoing(v) ==
  IF Len(source) > window THEN source[Len(source) - window] ELSE NaN

\* The sample that leaves the window, NaN while the window fills.
Outgoing(v) ==
  IF Len(source) >= window THEN Append(source, v)[Len(source) + 1 - window] ELSE NaN

CountedOut(v) == CountedIn(Outgoing(v))

Mean(total, count) ==
  IF count > 0 /\ total # Infinite THEN [sum |-> total, count |-> count] ELSE NaN

Smooth(v) ==
  /\ status = "running" /\ Len(source) < MaxLength
  /\ source' = Append(source, v)
  /\ sum' = Plus(Plus(sum, Term(v)), -Term(Outgoing(v)))
  /\ finite_count' = finite_count + CountedIn(v) - CountedOut(v)
  /\ means' = Append(means, Mean(sum', finite_count'))
  /\ totals' = Append(totals, At(totals, Len(totals)) + Term(v))
  /\ counts' = Append(counts, At(counts, Len(counts)) + CountedIn(v))
  /\ UNCHANGED <<window, status>>

FinishSmoothing ==
  /\ status = "running"
  /\ status' = "Ok"
  /\ UNCHANGED <<window, sum, finite_count, source, means, totals, counts>>

SmoothingNext == (\E v \in Values \cup {NaN} : Smooth(v)) \/ FinishSmoothing

SmoothingSpec == SmoothingInit /\ [][SmoothingNext]_smoothing

-----------------------------------------------------------------------------
\* Of the `length` samples up to the i-th.
WindowSum(i, length) == At(totals, i) - At(totals, i - length)
WindowCount(i) == At(counts, i) - At(counts, i - window)

(* The count never underflows and there is a mean for each value.          *)
SmoothingTypeOK ==
  /\ window \in Windows
  /\ status \in {"running", "InvalidSmoothingWindow", "Ok"}
  /\ sum \in Finite \cup {Infinite}
  /\ finite_count \in 0..Len(source)
  /\ source \in Seq(Values \cup {NaN})
  /\ Len(means) = Len(source)
  /\ totals \in Seq(Int) /\ counts \in Seq(Nat)
  /\ Len(totals) = Len(source) /\ Len(counts) = Len(source)

\* No window overflows, not even with the sample about to leave it.
NoOverflow ==
  \A i \in DOMAIN source : WindowSum(i, window) \in Finite /\ WindowSum(i, window + 1) \in Finite

(* While no window overflows, each mean is the one of the finite samples   *)
(* of its window, and NaN where there are none: however long the series,   *)
(* the running sum and count do not drift.                                 *)
MeansMatchWindow ==
  NoOverflow => \A i \in DOMAIN means :
    means[i] = IF WindowCount(i) = 0 THEN NaN
               ELSE [sum |-> WindowSum(i, window), count |-> WindowCount(i)]
=============================================================================
