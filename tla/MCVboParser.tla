----------------------------- MODULE MCVboParser -----------------------------
(***************************************************************************)
(* Finite line alphabets for model checking VboParser.                     *)
(***************************************************************************)
EXTENDS VboParserProps

CONSTANTS n1, n2, w1, w2, u1, u2

MCNumber == {n1, n2}
MCWord == {w1, w2}
MCFileCreated == {<<w1, w2>>}
MCUnknownName == {u1, u2}

T(text) == [kind |-> "text", text |-> text]
M(name) == [kind |-> "marker", name |-> name]
Flaw(kind) == [kind |-> kind]

\* Records of every shape against schemas of one and two columns.
RecordLines ==
  {M("column names"), M("data"), T(<<n1>>), T(<<w1>>), T(<<n1, w1>>), T(<<n1, n1>>),
   Flaw("oversized"), Flaw("blank"), Flaw("notUtf8")}

\* Data resumed under a wider schema.
ReopenedLines ==
  {M("column names"), M("data"), T(<<n1>>), T(<<n1, n1>>), T(<<n1, w1>>), Flaw("oversized")}

\* Units declared before, between and after the names and the data.
SchemaLines ==
  {M("column names"), M("channel units"), M("data"), T(<<n1>>), T(<<n1, n1>>)}

\* Metadata: known, unknown and reopened sections, several creation lines.
HeaderLines ==
  {M("header"), M("comments"), M(u1), M(u2), M("column names"), T(<<w1, w2>>), T(<<w2>>)}

\* Rows whose cells differ, under one and two columns.
TableLines ==
  {M("column names"), M("data"), T(<<n1>>), T(<<n2>>), T(<<n1, n2>>), T(<<n2, n1>>)}

\* Files of one alphabet each, up to its length.
Alphabets ==
  {[lines |-> RecordLines, length |-> 6], [lines |-> ReopenedLines, length |-> 8],
   [lines |-> SchemaLines, length |-> 8], [lines |-> HeaderLines, length |-> 6],
   [lines |-> TableLines, length |-> 6]}

AllLines == UNION {a.lines : a \in Alphabets}

\* The alphabets of which the file may still be one.
OpenAlphabets ==
  {a \in Alphabets : Len(consumed) < a.length /\ Range(consumed) \subseteq a.lines}

\* The steps of Spec over these files.
MCNext ==
  \/ \E l \in UNION {a.lines : a \in OpenAlphabets} : Step(l)
  \/ EndWithoutData
  \/ EndOfInput
  \/ ReadFails

MCSpec == Init /\ [][MCNext]_vars
=============================================================================
