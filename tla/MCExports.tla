------------------------------ MODULE MCExports ------------------------------
(***************************************************************************)
(* Tables with full, short and no row groups.                              *)
(***************************************************************************)
EXTENDS Exports

MCCreations == {<<"<", "a">>}
=============================================================================
