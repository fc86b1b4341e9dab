--------------------------- MODULE MCChannelSummary ---------------------------
(***************************************************************************)
(* Small columns whose products and sums may overflow.                     *)
(***************************************************************************)
EXTENDS ChannelSummary

MCCells == {-4, -1, 0, 2, 5}
=============================================================================
