----------------------------- MODULE MCPipeline ------------------------------
(***************************************************************************)
(* Every continuation of up to MaxBody bytes of a file that has declared   *)
(* one column, read in every way.                                          *)
(***************************************************************************)
EXTENDS Pipeline

CONSTANT MaxBody

MCNumber == {"1"}
MCWord ==
  {"a", "note", "header", "channel units", "comments", "column names", "data"}
MCFileCreated == {}
MCUnknownName == {"note"}
MCOther == MCNumber \cup MCWord \cup {"SP", "0xFF"}
MCSpace == {"SP"}
MCNotUtf8 == {"0xFF"}
MCLimits == 0..2

Preludes ==
  {<<>>, <<"column names", "CR", "LF", "1", "LF", "data", "LF">>}

\* Up to MaxBody bytes of every kind, or two bytes more of whitespace.
Bodies ==
  UNION {[1..n -> {"1", "a", "note", "SP", "0xFF", "CR", "LF"}] : n \in 0..MaxBody}
    \cup UNION {[1..n -> {"SP", "CR", "LF"}] : n \in 0..(MaxBody + 2)}
Delimited(file) ==
  \A i \in 1..(Len(file) - 1) : ~({file[i], file[i + 1]} \subseteq {"1", "a", "note"})

MCInputs == {p \o b : p \in Preludes, b \in {c \in Bodies : Delimited(c)}}
=============================================================================
