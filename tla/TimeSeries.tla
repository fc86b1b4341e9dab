------------------------------ MODULE TimeSeries ------------------------------
(***************************************************************************)
(* `TimeSeries::new`, `smooth_moving_mean`, `interpolate`, `align_to` and  *)
(* `resample_uniform` (src/analysis.rs): a series is validated, may be     *)
(* smoothed, which yields a series on the same timestamps, and is then     *)
(* evaluated at one timestamp after the other.                             *)
(*                                                                         *)
(* A timestamp is its rank in the order of `f64::total_cmp`, which is also *)
(* its identity: rank 2n is the number n, and rank -1 is negative zero,    *)
(* which counts as the number 0 but ranks below it.  Values are integers,  *)
(* finite from -Big to Big; interpolation and means round down.            *)
(***************************************************************************)
EXTENDS Smoothing, FiniteSets, FiniteSetsExt

CONSTANTS
  None,
  Series,        \* the timestamps and values `new` is called with
  Queries,       \* the timestamps a caller aligns to
  Requests,      \* the arguments of `resample_uniform`
  SampleLimit,   \* MAX_RESAMPLED_SAMPLES
  Precision,     \* quotients have a relative error of at most 1 / Precision
  MaxQueries,    \* bound: the number of timestamps to align to
  MaxEvaluated   \* bound: longer series are smoothed and not evaluated

Number(rank) == (rank + 1) \div 2
Timestamp(n) == 2 * n

IsTimestamp(t) == t = NaN \/ (t \in Int /\ (t % 2 = 0 \/ t = -1))

Error(tag) == [error |-> tag]
Ok == [error |-> None]

ASSUME SeriesAssumption ==
  /\ None \notin Int /\ None # "OutputLimit" /\ None # Error("OutputLimit")
  /\ \A s \in Series :
       /\ s.timestamps \in Seq(Int \cup {NaN})
       /\ \A i \in DOMAIN s.timestamps : IsTimestamp(s.timestamps[i])
       /\ s.values \in Seq(Values \cup {NaN}) /\ Len(s.values) <= MaxLength
  /\ \A t \in Queries : IsTimestamp(t)
  /\ \A r \in Requests : IsTimestamp(r[1]) /\ IsTimestamp(r[2]) /\ r[3] \in Int \cup {NaN}
  /\ SampleLimit \in Nat \ {0} /\ Precision \in Nat \ {0}
  /\ MaxQueries \in Nat /\ MaxEvaluated \in Nat

VARIABLES
  timestamps, values,    \* the series
  phase,     \* "new", "ready", then the call in progress, and "returned" at the end
  request,   \* the call's arguments
  grid,      \* the timestamps to evaluate
  output,    \* the values pushed
  result

own == <<timestamps, values, phase, request, grid, output, result>>
vars == <<own, smoothing>>

Init ==
  /\ \E s \in Series : timestamps = s.timestamps /\ values = s.values
  /\ phase = "new"
  /\ request = None
  /\ grid = <<>>
  /\ output = <<>>
  /\ result = None
  /\ SmoothingInit

Return(outcome) == phase' = "returned" /\ result' = outcome

-----------------------------------------------------------------------------
\* Mutant: neighbours may share a time.
Ordered(i) == Number(timestamps[i - 1]) <= Number(timestamps[i])

Increasing(i) == Number(timestamps[i - 1]) < Number(timestamps[i])

Invalid(i) ==
  \/ timestamps[i] = NaN
  \/ i > 1 /\ timestamps[i - 1] # NaN /\ ~Increasing(i)

\* `TimeSeries::new`: the first defect is returned.
New ==
  /\ phase = "new"
  /\ IF Len(timestamps) # Len(values) THEN Return(Error("MismatchedLengths"))
     ELSE IF \E i \in DOMAIN timestamps : Invalid(i)
       THEN LET first == Min({i \in DOMAIN timestamps : Invalid(i)})
            IN  Return(Error(IF timestamps[first] = NaN THEN "InvalidTimestamp"
                             ELSE "NonMonotonicTimestamp"))
     ELSE phase' = "ready" /\ UNCHANGED result
  /\ UNCHANGED <<timestamps, values, request, grid, output, smoothing>>

\* `smooth_moving_mean`, called once at most.
SmoothMovingMean ==
  /\ phase = "ready" /\ status # "Ok"
  /\ IF window = 0 THEN Return(Error("InvalidSmoothingWindow"))
     ELSE phase' = "smooth" /\ UNCHANGED result
  /\ UNCHANGED <<timestamps, values, request, grid, output, smoothing>>

SmoothSample ==
  /\ phase = "smooth"
  /\ Len(source) < Len(values)
  /\ Smooth(values[Len(source) + 1])
  /\ UNCHANGED own

\* `sum / count`
Quotient(mean) == IF mean = NaN THEN NaN ELSE mean.sum \div mean.count

\* The smoothed series is a series again, on the same timestamps.
SmoothedSeries ==
  /\ phase = "smooth"
  /\ Len(source) = Len(values)
  /\ FinishSmoothing
  /\ values' = [i \in DOMAIN means |-> Quotient(means[i])]
  /\ phase' = "ready"
  /\ UNCHANGED <<timestamps, request, grid, output, result>>

\* `binary_search_by` on a sorted slice: the index found, or where to insert.
Found(t) == {i \in DOMAIN timestamps : timestamps[i] = t}
InsertionPoint(t) == 1 + Cardinality({i \in DOMAIN timestamps : timestamps[i] < t})

Observed(v) == IF v = NaN THEN None ELSE v

\* Mutant: a missing neighbour is bridged by the other.
LineOrNeighbour(lower, t) ==
  IF values[lower] = NaN THEN Observed(values[lower + 1]) ELSE Observed(values[lower])

\* Between two samples; a difference that overflows yields no finite value.
Line(lower, t) ==
  LET low == values[lower]
      high == values[lower + 1]
      start == Number(timestamps[lower])
      span == Number(timestamps[lower + 1]) - start
  IN  IF low = NaN \/ high = NaN THEN None
      ELSE IF high - low \notin Finite THEN None
      ELSE low + ((high - low) * (Number(t) - start)) \div span

Interpolate(t) ==
  IF Found(t) # {} THEN Observed(values[Min(Found(t))])
  ELSE IF InsertionPoint(t) = 1 THEN None
  ELSE IF InsertionPoint(t) = Len(timestamps) + 1 THEN None
  ELSE Line(InsertionPoint(t) - 1, t)

AlignTo(queries) ==
  /\ phase = "ready" /\ Len(timestamps) <= MaxEvaluated
  /\ phase' = "align"
  /\ grid' = queries
  /\ request' = queries
  /\ UNCHANGED <<timestamps, values, output, result, smoothing>>

\* `((end - start) / interval).floor()`: a quotient just below an integer may
\* round to it before the floor is taken.
Steps(length, interval) ==
  LET whole == length \div interval
      missing == interval - (length % interval)
  IN  {whole} \cup IF missing < interval /\ missing * Precision <= length THEN {whole + 1} ELSE {}

\* Mutant: the cap is compared with the steps, not with the samples.
OverLimit(steps) == steps > SampleLimit

AtLimit(steps) == steps >= SampleLimit

IsInterval(start, end, interval) ==
  /\ start # NaN /\ end # NaN /\ interval # NaN
  /\ Number(start) <= Number(end) /\ interval > 0

ResampleUniform(start, end, interval) ==
  /\ phase = "ready" /\ Len(timestamps) <= MaxEvaluated
  /\ request' = <<start, end, interval>>
  /\ IF ~IsInterval(start, end, interval)
       THEN Return(Error("InvalidResamplingInterval")) /\ UNCHANGED grid
       ELSE \E steps \in Steps(Number(end) - Number(start), interval) :
         IF AtLimit(steps) THEN Return(Error("OutputLimit")) /\ UNCHANGED grid
         ELSE /\ grid' = [i \in 1..(steps + 1) |->
                            Timestamp(Number(start) + (i - 1) * interval)]
              /\ phase' = "resample"
              /\ UNCHANGED result
  /\ UNCHANGED <<timestamps, values, output, smoothing>>

\* One iteration of either loop.
Evaluate ==
  /\ phase \in {"align", "resample"}
  /\ Len(output) < Len(grid)
  /\ LET t == grid[Len(output) + 1] IN
       IF t = NaN THEN Return(Error("InvalidQueryTimestamp")) /\ UNCHANGED output
       ELSE /\ output' = Append(output, Interpolate(t))
            /\ UNCHANGED <<phase, result>>
  /\ UNCHANGED <<timestamps, values, request, grid, smoothing>>

Finish ==
  /\ phase \in {"align", "resample"}
  /\ Len(output) = Len(grid)
  /\ Return(Ok)
  /\ UNCHANGED <<timestamps, values, request, grid, output, smoothing>>

Next ==
  \/ New
  \/ SmoothMovingMean \/ SmoothSample \/ SmoothedSeries
  \/ \E n \in 0..MaxQueries : \E queries \in [1..n -> Queries] : AlignTo(queries)
  \/ \E r \in Requests : ResampleUniform(r[1], r[2], r[3])
  \/ Evaluate
  \/ Finish

Spec == Init /\ [][Next]_vars

-----------------------------------------------------------------------------
(* A series that is evaluated is increasing and as long as its values, as  *)
(* the smoothed one is; no more is pushed than was asked for.              *)
TypeOK ==
  /\ SmoothingTypeOK
  /\ phase \in {"new", "ready", "smooth", "align", "resample", "returned"}
  /\ phase \in {"ready", "smooth", "align", "resample"} =>
       /\ Len(timestamps) = Len(values)
       /\ \A i, j \in DOMAIN timestamps : i < j => timestamps[i] < timestamps[j]
  /\ Len(output) <= Len(grid)
  /\ output \in Seq(Finite \cup {None})

\* The samples at or next to a time, by their numbers.
Before(t) == {i \in DOMAIN timestamps : Number(timestamps[i]) <= Number(t)}
After(t) == {i \in DOMAIN timestamps : Number(timestamps[i]) >= Number(t)}

\* No sample is the same number with the other sign of zero.
SignsAgree(t) == \A i \in DOMAIN timestamps : Number(timestamps[i]) = Number(t) => timestamps[i] = t

(* An evaluated channel holds a value at a timestamp exactly when it lies  *)
(* in the recorded range between samples that were observed (and do not    *)
(* lie so far apart that their difference overflows); that value is the    *)
(* sample there, or lies between its neighbours: no extrapolation.         *)
OutputFollowsSamples ==
  \A k \in DOMAIN output : SignsAgree(grid[k]) =>
    IF Before(grid[k]) = {} \/ After(grid[k]) = {} THEN output[k] = None
    ELSE LET low == values[Max(Before(grid[k]))]
             high == values[Min(After(grid[k]))]
         IN  IF low = NaN \/ high = NaN THEN output[k] = None
             ELSE IF high - low \notin Finite THEN output[k] = None
             ELSE output[k] \in low..high \/ output[k] \in high..low

(* A resampled channel is never longer than the limit, and its grid starts *)
(* at the start, is uniform, reaches the end and does not leave it by a    *)
(* whole interval; a request is refused only when it would be too long.    *)
GridCoversRange ==
  /\ phase = "resample" =>
       LET start == Number(request[1])
           end == Number(request[2])
           interval == request[3]
       IN  /\ Len(grid) \in 1..SampleLimit
           /\ \A i \in DOMAIN grid : Number(grid[i]) = start + (i - 1) * interval
           /\ end - interval < Number(grid[Len(grid)])
           /\ Number(grid[Len(grid)]) < end + interval
  /\ result = Error("OutputLimit") =>
       Number(request[1]) + SampleLimit * request[3] < Number(request[2]) + request[3]
=============================================================================
