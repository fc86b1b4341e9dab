-------------------------- MODULE MCStrictVsRecovery --------------------------
(***************************************************************************)
(* Records of every shape and the markers that give them a schema.         *)
(***************************************************************************)
EXTENDS StrictVsRecovery

CONSTANTS n1, w1, u1

MCNumber == {n1}
MCWord == {w1}
MCFileCreated == {}
MCUnknownName == {u1}

T(text) == [kind |-> "text", text |-> text]
M(name) == [kind |-> "marker", name |-> name]
Flaw(kind) == [kind |-> kind]

MCLines ==
  {M("column names"), M("data"), T(<<n1>>), T(<<w1>>), T(<<n1, n1>>),
   Flaw("oversized"), Flaw("notUtf8")}
=============================================================================
