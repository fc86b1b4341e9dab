----------------------------- MODULE MCTimeSeries -----------------------------
(***************************************************************************)
(* Short series of any timestamps, both zeros included, which are smoothed *)
(* or not and evaluated; and long ones, which are smoothed.                *)
(***************************************************************************)
EXTENDS TimeSeries

MCValues == {-3, 0, 5}
MCRanks == {-4, -1, 0, 2, 8}

Columns(set, length) == UNION {[1..n -> set] : n \in 0..length}

Short(length) ==
  [timestamps : Columns(MCRanks \cup {NaN}, length),
   values : Columns(MCValues \cup {NaN}, length)]
Long(length) ==
  [timestamps : {[i \in 1..length |-> 2 * i]}, values : [1..length -> MCValues \cup {NaN}]]

MCSeries == Short(3) \cup Long(5)
MCQueries == MCRanks \cup {NaN}

\* Invalid ones, grids with one point, and grids about as long as the limit.
MCRequests ==
  {<<NaN, 2, 1>>, <<0, NaN, 1>>, <<0, 2, NaN>>, <<2, 0, 1>>, <<0, 2, 0>>, <<0, 2, -1>>, <<0, -1, 1>>}
    \cup {<<-2, end, interval>> : end \in {-2, 0, 6, 12, 16}, interval \in {1, 2, 3, 5}}
=============================================================================
